---- MODULE Spec2Model ----
(***************************************************************************)
(* Verification model of the relationship aggregation, hop-distance,       *)
(* debounce and conversational-query logic of the network-ui client.       *)
(*                                                                         *)
(* JavaScript strings are modelled as tuples of one-character strings so   *)
(* that toLowerCase, includes, sort, join and split are computed on the    *)
(* characters, as the source computes them.                                *)
(***************************************************************************)
EXTENDS Integers, Sequences, FiniteSets, TLC

(***************************************************************************)
(* Bounds of the model.                                                    *)
(***************************************************************************)
\* Longest relationship list drawn as an input.
MaxRels == 3

(***************************************************************************)
(* JavaScript values.                                                      *)
(***************************************************************************)
\* null for a string-typed field (Relationship.timestamp, Relationship.location).
Null == <<"<null>">>

\* The characters of the model's strings in UTF-16 code-unit order.
Alphabet == <<" ", "'", ",", "-", ".", "/", "0", "1", "2", "3", "4", "5", "6", "7", "8", "9", "A", "B", "C", "D", "E", "F", "G", "H", "I", "J", "K", "L", "M", "N", "O", "P", "Q", "R", "S", "T", "U", "V", "W", "X", "Y", "Z", "a", "b", "c", "d", "e", "f", "g", "h", "i", "j", "k", "l", "m", "n", "o", "p", "q", "r", "s", "t", "u", "v", "w", "x", "y", "z", "|">>

CharCode(c) == CHOOSE i \in 1..Len(Alphabet) : Alphabet[i] = c

\* String.prototype.toLowerCase on one character.
LowerChar(c) ==
    LET i == CharCode(c)
    IN  IF i >= CharCode("A") /\ i <= CharCode("Z")
        THEN Alphabet[i - CharCode("A") + CharCode("a")]
        ELSE c

toLowerCase(s) == [i \in 1..Len(s) |-> LowerChar(s[i])]

\* String.prototype.includes
includes(s, sub) ==
    \E i \in 0..(Len(s) - Len(sub)) :
        \A j \in 1..Len(sub) : s[i + j] = sub[j]

\* a < b for strings: comparison by UTF-16 code units.
StrLess(a, b) ==
    \E k \in 1..(Len(b)) :
        /\ \A j \in 1..(k - 1) : j <= Len(a) /\ a[j] = b[j]
        /\ k - 1 <= Len(a)
        /\ (k > Len(a) \/ CharCode(a[k]) < CharCode(b[k]))

\* Truthiness of a nullable string: null and "" are falsy.
Truthy(s) == s # Null /\ s # <<>>

(***************************************************************************)
(* lib/locations.ts                                                        *)
(***************************************************************************)
\* Coordinates are [lat, lng] scaled by 10^4; entries in insertion order.
LOCATION_COORDS == <<
    [key |-> <<"N","e","w"," ","Y","o","r","k">>, coords |-> <<410000, -740000>>],
    [key |-> <<"N","e","w"," ","Y","o","r","k"," ","C","i","t","y">>, coords |-> <<410000, -740000>>],
    [key |-> <<"M","a","n","h","a","t","t","a","n">>, coords |-> <<407831, -739712>>],
    [key |-> <<"P","a","l","m"," ","B","e","a","c","h">>, coords |-> <<267000, -800000>>],
    [key |-> <<"P","a","l","m"," ","B","e","a","c","h",","," ","F","L">>, coords |-> <<267000, -800000>>],
    [key |-> <<"F","l","o","r","i","d","a">>, coords |-> <<285000, -825000>>],
    [key |-> <<"M","i","a","m","i">>, coords |-> <<257600, -801900>>],
    [key |-> <<"W","a","s","h","i","n","g","t","o","n">>, coords |-> <<389000, -770000>>],
    [key |-> <<"W","a","s","h","i","n","g","t","o","n",","," ","D",".","C",".">>, coords |-> <<389000, -770000>>],
    [key |-> <<"W","a","s","h","i","n","g","t","o","n"," ","D","C">>, coords |-> <<389000, -770000>>],
    [key |-> <<"B","o","s","t","o","n">>, coords |-> <<423600, -710600>>],
    [key |-> <<"C","a","m","b","r","i","d","g","e">>, coords |-> <<423700, -711100>>],
    [key |-> <<"H","a","r","v","a","r","d">>, coords |-> <<423800, -711200>>],
    [key |-> <<"N","e","w"," ","J","e","r","s","e","y">>, coords |-> <<400600, -744100>>],
    [key |-> <<"C","o","n","n","e","c","t","i","c","u","t">>, coords |-> <<416000, -727000>>],
    [key |-> <<"L","o","s"," ","A","n","g","e","l","e","s">>, coords |-> <<340500, -1182400>>],
    [key |-> <<"L","a","s"," ","V","e","g","a","s">>, coords |-> <<361700, -1151400>>],
    [key |-> <<"S","a","n","t","a"," ","F","e">>, coords |-> <<356900, -1059400>>],
    [key |-> <<"N","e","w"," ","M","e","x","i","c","o">>, coords |-> <<345200, -1058700>>],
    [key |-> <<"O","h","i","o">>, coords |-> <<404200, -829100>>],
    [key |-> <<"T","e","x","a","s">>, coords |-> <<319700, -999000>>],
    [key |-> <<"C","a","l","i","f","o","r","n","i","a">>, coords |-> <<367800, -1194200>>],
    [key |-> <<"A","r","i","z","o","n","a">>, coords |-> <<340500, -1110900>>],
    [key |-> <<"U","S"," ","V","i","r","g","i","n"," ","I","s","l","a","n","d","s">>, coords |-> <<183400, -649000>>],
    [key |-> <<"V","i","r","g","i","n"," ","I","s","l","a","n","d","s">>, coords |-> <<183400, -649000>>],
    [key |-> <<"L","i","t","t","l","e"," ","S","t","."," ","J","a","m","e","s">>, coords |-> <<183000, -648300>>],
    [key |-> <<"S","t","."," ","T","h","o","m","a","s">>, coords |-> <<183400, -648900>>],
    [key |-> <<"S","t","."," ","J","a","m","e","s">>, coords |-> <<183000, -648300>>],
    [key |-> <<"C","a","r","i","b","b","e","a","n">>, coords |-> <<190000, -690000>>],
    [key |-> <<"L","o","n","d","o","n">>, coords |-> <<515100, -1300>>],
    [key |-> <<"P","a","r","i","s">>, coords |-> <<488600, 23500>>],
    [key |-> <<"F","r","a","n","c","e">>, coords |-> <<462300, 22100>>],
    [key |-> <<"M","o","n","a","c","o">>, coords |-> <<437400, 74200>>],
    [key |-> <<"S","w","i","t","z","e","r","l","a","n","d">>, coords |-> <<468200, 82300>>],
    [key |-> <<"I","s","r","a","e","l">>, coords |-> <<310500, 348500>>],
    [key |-> <<"T","e","l"," ","A","v","i","v">>, coords |-> <<320900, 347800>>],
    [key |-> <<"J","a","p","a","n">>, coords |-> <<362000, 1382500>>],
    [key |-> <<"T","o","k","y","o">>, coords |-> <<356800, 1396500>>],
    [key |-> <<"A","u","s","t","r","a","l","i","a">>, coords |-> <<-252700, 1337800>>],
    [key |-> <<"A","f","r","i","c","a">>, coords |-> <<87800, 345100>>],
    [key |-> <<"M","o","r","o","c","c","o">>, coords |-> <<317900, -70900>>],
    [key |-> <<"I","n","t","e","r","n","a","t","i","o","n","a","l">>, coords |-> <<0, 0>>],
    [key |-> <<"U","n","k","n","o","w","n">>, coords |-> <<0, 0>>]
>>

NoCoords == <<>>

LocationKeyIndex(location) ==
    {i \in 1..Len(LOCATION_COORDS) : LOCATION_COORDS[i].key = location}

CoordsOf(name) ==
    LOCATION_COORDS[CHOOSE i \in 1..Len(LOCATION_COORDS) :
                        LOCATION_COORDS[i].key = name].coords

\* First table entry, in Object.entries order, that contains or is contained
\* in the lower-cased location.
PartialMatchIndex(locationLower) ==
    {i \in 1..Len(LOCATION_COORDS) :
        \/ includes(locationLower, toLowerCase(LOCATION_COORDS[i].key))
        \/ includes(toLowerCase(LOCATION_COORDS[i].key), locationLower)}

Min(S) == CHOOSE x \in S : \A y \in S : x <= y
Max(S) == CHOOSE x \in S : \A y \in S : x >= y

getLocationCoords(location) ==
    IF ~Truthy(location) THEN NoCoords
    ELSE IF LocationKeyIndex(location) # {}
    THEN LOCATION_COORDS[Min(LocationKeyIndex(location))].coords
    ELSE LET locationLower == toLowerCase(location) IN
    IF PartialMatchIndex(locationLower) # {}
    THEN LOCATION_COORDS[Min(PartialMatchIndex(locationLower))].coords
    ELSE
    IF includes(locationLower, <<"p","a","l","m"," ","b","e","a","c","h">>) THEN CoordsOf(<<"P","a","l","m"," ","B","e","a","c","h">>) ELSE
    IF includes(locationLower, <<"v","i","r","g","i","n"," ","i","s","l","a","n","d">>) \/ includes(locationLower, <<"s","t","."," ","j","a","m","e","s">>) \/ includes(locationLower, <<"l","i","t","t","l","e"," ","s","t"," ","j","a","m","e","s">>) THEN CoordsOf(<<"U","S"," ","V","i","r","g","i","n"," ","I","s","l","a","n","d","s">>) ELSE
    IF includes(locationLower, <<"n","e","w"," ","y","o","r","k">>) \/ includes(locationLower, <<"n","y","c">>) \/ includes(locationLower, <<"m","a","n","h","a","t","t","a","n">>) THEN CoordsOf(<<"N","e","w"," ","Y","o","r","k">>) ELSE
    IF includes(locationLower, <<"m","i","a","m","i">>) THEN CoordsOf(<<"M","i","a","m","i">>) ELSE
    IF includes(locationLower, <<"f","l","o","r","i","d","a">>) \/ locationLower = <<"f","l">> THEN CoordsOf(<<"F","l","o","r","i","d","a">>) ELSE
    IF includes(locationLower, <<"l","o","n","d","o","n">>) \/ includes(locationLower, <<"u","k">>) \/ includes(locationLower, <<"e","n","g","l","a","n","d">>) THEN CoordsOf(<<"L","o","n","d","o","n">>) ELSE
    IF includes(locationLower, <<"p","a","r","i","s">>) THEN CoordsOf(<<"P","a","r","i","s">>) ELSE
    IF includes(locationLower, <<"f","r","a","n","c","e">>) THEN CoordsOf(<<"F","r","a","n","c","e">>) ELSE
    IF includes(locationLower, <<"w","a","s","h","i","n","g","t","o","n">>) \/ includes(locationLower, <<"d",".","c",".">>) \/ includes(locationLower, <<"d","c">>) THEN CoordsOf(<<"W","a","s","h","i","n","g","t","o","n">>) ELSE
    IF includes(locationLower, <<"c","a","r","i","b","b","e","a","n">>) THEN CoordsOf(<<"C","a","r","i","b","b","e","a","n">>) ELSE
    NoCoords

normalizeLocation(location) ==
    IF ~Truthy(location) THEN <<"U","n","k","n","o","w","n">>
    ELSE LET loc == toLowerCase(location) IN
    IF includes(loc, <<"p","a","l","m"," ","b","e","a","c","h">>) THEN <<"P","a","l","m"," ","B","e","a","c","h">> ELSE
    IF includes(loc, <<"v","i","r","g","i","n"," ","i","s","l","a","n","d">>) \/ includes(loc, <<"l","i","t","t","l","e"," ","s","t","."," ","j","a","m","e","s">>) \/ includes(loc, <<"s","t"," ","j","a","m","e","s">>) \/ includes(loc, <<"e","p","s","t","e","i","n","'","s"," ","i","s","l","a","n","d">>) THEN <<"U","S"," ","V","i","r","g","i","n"," ","I","s","l","a","n","d","s">> ELSE
    IF includes(loc, <<"n","e","w"," ","y","o","r","k">>) \/ includes(loc, <<"m","a","n","h","a","t","t","a","n">>) \/ includes(loc, <<"n","y","c">>) THEN <<"N","e","w"," ","Y","o","r","k">> ELSE
    IF includes(loc, <<"m","i","a","m","i">>) THEN <<"M","i","a","m","i">> ELSE
    IF includes(loc, <<"f","l","o","r","i","d","a">>) \/ loc = <<"f","l">> THEN <<"F","l","o","r","i","d","a">> ELSE
    IF includes(loc, <<"l","o","n","d","o","n">>) \/ includes(loc, <<"u","k">>) \/ includes(loc, <<"e","n","g","l","a","n","d">>) THEN <<"L","o","n","d","o","n">> ELSE
    IF includes(loc, <<"p","a","r","i","s">>) THEN <<"P","a","r","i","s">> ELSE
    IF includes(loc, <<"f","r","a","n","c","e">>) THEN <<"F","r","a","n","c","e">> ELSE
    IF includes(loc, <<"w","a","s","h","i","n","g","t","o","n">>) \/ includes(loc, <<"d",".","c",".">>) THEN <<"W","a","s","h","i","n","g","t","o","n"," ","D","C">> ELSE
    IF includes(loc, <<"l","o","s"," ","a","n","g","e","l","e","s">>) THEN <<"L","o","s"," ","A","n","g","e","l","e","s">> ELSE
    IF includes(loc, <<"s","a","n","t","a"," ","f","e">>) THEN <<"S","a","n","t","a"," ","F","e">> ELSE
    IF includes(loc, <<"n","e","w"," ","m","e","x","i","c","o">>) THEN <<"N","e","w"," ","M","e","x","i","c","o">> ELSE
    IF includes(loc, <<"h","a","r","v","a","r","d">>) \/ includes(loc, <<"c","a","m","b","r","i","d","g","e">>) THEN <<"B","o","s","t","o","n">> ELSE
    IF includes(loc, <<"b","o","s","t","o","n">>) THEN <<"B","o","s","t","o","n">> ELSE
    IF includes(loc, <<"i","s","r","a","e","l">>) \/ includes(loc, <<"t","e","l"," ","a","v","i","v">>) THEN <<"I","s","r","a","e","l">> ELSE
    IF includes(loc, <<"t","o","k","y","o">>) \/ includes(loc, <<"j","a","p","a","n">>) THEN <<"J","a","p","a","n">> ELSE
    location

(***************************************************************************)
(* Array helpers.                                                          *)
(***************************************************************************)
\* Array.prototype.sort((a, b) => Key(b) - Key(a)): descending by Key, and
\* stable, so elements of equal Key keep their order.
SortDescBy(s, Key(_)) ==
    LET n == Len(s)
        rank(i) == Cardinality({j \in 1..n :
                        \/ Key(s[j]) > Key(s[i])
                        \/ (Key(s[j]) = Key(s[i]) /\ j < i)}) + 1
    IN  [p \in 1..n |-> s[CHOOSE i \in 1..n : rank(i) = p]]

\* [x, y].sort(): the default comparator orders strings by code units.
SortPair(x, y) == IF StrLess(y, x) THEN <<y, x>> ELSE <<x, y>>

\* Array.prototype.join on a two-element array.
JoinPair(pair, sep) == pair[1] \o sep \o pair[2]

\* Positions at which sep occurs in s.
Occurrences(s, sep) ==
    {i \in 1..(Len(s) - Len(sep) + 1) :
        \A j \in 1..Len(sep) : s[i + j - 1] = sep[j]}

\* String.prototype.split(sep) for a non-empty separator.
RECURSIVE split(_, _)
split(s, sep) ==
    IF Occurrences(s, sep) = {} THEN <<s>>
    ELSE LET i == Min(Occurrences(s, sep))
         IN  <<SubSeq(s, 1, i - 1)>> \o split(SubSeq(s, i + Len(sep), Len(s)), sep)

\* Index of the first element of s satisfying Test, 0 when there is none.
IndexWhere(s, Test(_)) ==
    IF \E i \in 1..Len(s) : Test(s[i])
    THEN Min({i \in 1..Len(s) : Test(s[i])})
    ELSE 0

(***************************************************************************)
(* State.                                                                  *)
(***************************************************************************)
VARIABLES
    relationships,  \* App: the loaded Relationship[] (props of every view)
    aggOp,          \* which derived structure was last computed from it
    derived,        \* that derived structure
    \* Sidebar and MobileBottomNav: debounced filter fields
    localYearRange,          \* Sidebar.localYearRange, <<min, max>>
    localLimit,              \* Sidebar.localLimit
    mobileLocalLimit,        \* MobileBottomNav.localLimit
    debounceTimerRef,        \* Sidebar.debounceTimerRef.current (0 is null)
    limitDebounceTimerRef,   \* Sidebar.limitDebounceTimerRef.current
    mobileDebounceTimerRef,  \* MobileBottomNav.debounceTimerRef.current
    timers,                  \* by id, the timeouts set and neither run nor cleared
    nextTimerId,             \* the id the next setTimeout returns
    now,                     \* the clock, in seconds
    changes,                 \* per callback, the slider changes handled so far
    calls,                   \* per callback, its invocations so far
    \* askAI: one call of the chat query builder
    hasKey,           \* GROQ_API_KEY is configured
    question,         \* the question argument
    askPc,            \* where the call stands
    extractedTerms,   \* searchTerms as extractSearchTerms returned it
    sortedTerms,      \* searchTerms after the in-place sort
    deepSearchCalls,  \* the calls of deepSearch, in the order they were made
    lookups,          \* per issued term, the state of its search promise
    completionOrder,  \* the indices of the lookups in the order they settled
    searchResults,    \* the merged DeepSearchResult, optional
    llmRequest,       \* what the call sent to the language model, optional
    llmResponse,      \* how the language model call went, optional
    askResult,        \* the state of the promise askAI returned
    \* NetworkView and GlobeView: what is selected
    selectedNode,          \* NetworkView prop selectedNode, a name or Null
    nvSelectedEvent,       \* NetworkView.selectedEvent, optional
    showSearch,            \* NetworkView.showSearch
    searchQuery,           \* NetworkView.searchQuery
    selectedLocationName,  \* GlobeView.selectedLocationName, a name or Null
    selectedEvent,         \* GlobeView.selectedEvent, optional
    lastUiEvent,           \* the handler that ran last
    \* GlobeView: the bubble map's zoom animation
    zoomAnimationRef,  \* GlobeView.zoomAnimationRef.current (0 is null)
    frames,  \* by id, the animation whose frame callback is scheduled
    nextFrameId,  \* the id the next requestAnimationFrame returns
    animations,  \* the animations started, each with its start time and duration
    animClock,  \* Date.now(), in display frames
    staleWrite, \* a superseded animation has written zoom and pan
    showBubbleMap,      \* GlobeView.showBubbleMap
    bubbleMapPerson,    \* GlobeView.bubbleMapPerson, a name or Null
    bubbleZoom,         \* GlobeView.bubbleZoom, in hundredths
    bubblePan,          \* GlobeView.bubblePan, as <<x, y>>
    animationsAtClose,  \* the animations started when the map was last closed
    writeAfterClose,    \* an animation started before a close has written after it
    \* Sidebar: mount state and props
    sidebarMounted,  \* the Sidebar has not been unmounted
    callsAtUnmount,  \* deliveries per callback made when the Sidebar was unmounted
    yearRange,  \* the yearRange prop
    yearRangeSynced,  \* the effect on yearRange has run since the prop changed
    rejected,  \* slider changes the year sliders refused
    localKeywords, \* Sidebar.localKeywords
    \* App: start-up and the relationship load
    appPc,  \* where App's init function is
    clustersFetch,  \* the promise of fetchTagClusters()
    statsFetch,  \* the promise of fetchStats()
    enabledClusterIds,  \* App.enabledClusterIds, as a list
    enabledCategories,  \* App.enabledCategories, as a list
    isInitialized,  \* App.isInitialized
    loading,  \* App.loading
    appError,  \* App.error is not null
    loadRequest,  \* the arguments of the fetchRelationships call, optional
    loadFetch,  \* the promise of fetchRelationships(...)
    listBeforeLoad, \* App.relationships when load was called
    \* NetworkView: the D3 force layout
    forceNodes,  \* by id, the simulation node: x, y and the fixed position fx, fy (optional)
    dragSubject, \* the id of the node being dragged, or Null
    \* RotatingEarth: the wireframe globe and its re-centering animation
    earthMounted,  \* RotatingEarth is mounted and its projection made
    earthSelected,  \* RotatingEarth prop selectedLocation, a name or Null
    earthFrames,  \* by id, the animation whose animate callback is scheduled
    earthNextFrameId,  \* the id the next requestAnimationFrame returns
    earthAnimations,  \* the animateToLocation calls so far
    earthClock,  \* Date.now(), in display frames
    rotation,  \* rotationRef.current, as <<lambda, phi>>
    scale,  \* projectionRef.current.scale()
    earthWriters, \* the animations whose animate has written, in order
    \* useAIChat: the chat transcript
    messages,  \* useAIChat.messages
    chatLoading,  \* useAIChat.loading
    chatPending,  \* the questions whose askAI call has not settled
    chatAsked, \* the number of questions asked so far
    \* GlobeView: the document preloaded for the selected event
    docHasKey,  \* VITE_GROQ_API_KEY is configured
    documentText,  \* GlobeView.documentText, optional
    documentMeta,  \* GlobeView.documentMeta, optional
    documentAI,  \* GlobeView.documentAI, optional
    documentLoading,  \* GlobeView.documentLoading
    documentAILoading,  \* GlobeView.documentAILoading
    docCalls  \* the calls of preloadDocument so far, each with its requests

aggVars == <<relationships, aggOp, derived>>

debounceVars ==
    <<localYearRange, localLimit, mobileLocalLimit, debounceTimerRef,
      limitDebounceTimerRef, mobileDebounceTimerRef, timers, nextTimerId, now,
      changes, calls>>

askVars ==
    <<hasKey, question, askPc, extractedTerms, sortedTerms, deepSearchCalls, lookups, completionOrder,
      searchResults, llmRequest, llmResponse, askResult>>

selectVars ==
    <<selectedNode, nvSelectedEvent, showSearch, searchQuery, selectedLocationName,
      selectedEvent, lastUiEvent>>

animVars ==
    <<zoomAnimationRef, frames, nextFrameId, animations, animClock,
      staleWrite, showBubbleMap, bubbleMapPerson, bubbleZoom, bubblePan,
      animationsAtClose, writeAfterClose>>

sidebarVars ==
    <<sidebarMounted, callsAtUnmount, yearRange, yearRangeSynced, rejected,
      localKeywords>>

appVars ==
    <<appPc, clustersFetch, statsFetch, enabledClusterIds,
      enabledCategories, isInitialized, loading, appError, loadRequest,
      loadFetch, listBeforeLoad>>

forceVars ==
    <<forceNodes, dragSubject>>

earthVars ==
    <<earthMounted, earthSelected, earthFrames, earthNextFrameId,
      earthAnimations, earthClock, rotation, scale, earthWriters>>

chatVars ==
    <<messages, chatLoading, chatPending, chatAsked>>

docVars ==
    <<docHasKey, documentText, documentMeta, documentAI, documentLoading,
      documentAILoading, docCalls>>

vars ==
    <<aggVars, debounceVars, askVars, selectVars, animVars, sidebarVars,
      appVars, forceVars, earthVars, chatVars, docVars>>

\* What an action on one part of the program leaves alone.
exceptAgg ==
    <<debounceVars, askVars, selectVars, animVars, sidebarVars, appVars,
      forceVars, earthVars, chatVars, docVars>>

exceptDebounce ==
    <<aggVars, askVars, selectVars, animVars, sidebarVars, appVars,
      forceVars, earthVars, chatVars, docVars>>

exceptAsk ==
    <<aggVars, debounceVars, selectVars, animVars, sidebarVars, appVars,
      forceVars, earthVars, chatVars, docVars>>

exceptSelect ==
    <<debounceVars, askVars, animVars, sidebarVars, appVars, forceVars,
      earthVars, chatVars, docVars>>

exceptAnim ==
    <<aggVars, debounceVars, askVars, selectVars, sidebarVars, appVars,
      forceVars, earthVars, chatVars, docVars>>

exceptSidebarDebounce ==
    <<aggVars, askVars, selectVars, animVars, appVars, forceVars, earthVars,
      chatVars, docVars>>

exceptApp ==
    <<debounceVars, askVars, selectVars, animVars, sidebarVars, forceVars,
      earthVars, chatVars, docVars>>

exceptForce ==
    <<aggVars, debounceVars, askVars, selectVars, animVars, sidebarVars,
      appVars, earthVars, chatVars, docVars>>

exceptEarth ==
    <<aggVars, debounceVars, askVars, selectVars, animVars, sidebarVars,
      appVars, forceVars, chatVars, docVars>>

exceptChat ==
    <<aggVars, debounceVars, askVars, selectVars, animVars, sidebarVars,
      appVars, forceVars, earthVars, docVars>>

exceptDoc ==
    <<aggVars, debounceVars, askVars, selectVars, animVars, sidebarVars,
      appVars, forceVars, earthVars, chatVars>>

\* The ends of the year sliders.
MinYear == 1970

MaxYear == 2025

\* Sidebar and MobileBottomNav as mounted, before any slider is moved: the
\* local fields are <range> and <limit>, the refs are null, no timeout is set.
DebounceMounted(range, limitValue, mobileLimit) ==
    /\ localYearRange = range
    /\ localLimit = limitValue
    /\ mobileLocalLimit = mobileLimit
    /\ debounceTimerRef = 0
    /\ limitDebounceTimerRef = 0
    /\ mobileDebounceTimerRef = 0
    /\ timers = <<>>
    /\ nextTimerId = 1
    /\ now = 0
    /\ changes = [c \in {"onYearRangeChange", "onLimitChange", "mobileOnLimitChange"} |-> <<>>]
    /\ calls = [c \in {"onYearRangeChange", "onLimitChange", "mobileOnLimitChange"} |-> <<>>]

DebounceIdle == DebounceMounted(<<MinYear, MaxYear>>, 100, 500)

\* An optional value (T | undefined, T | null) is the empty sequence when
\* absent and a one-element sequence when present.
Absent == <<>>

Present(value) == <<value>>

\* askAI before it is called with <q>.
AskNotCalled(key, q) ==
    /\ hasKey = key
    /\ question = q
    /\ askPc = "start"
    /\ extractedTerms = <<>>
    /\ sortedTerms = <<>>
    /\ deepSearchCalls = <<>>
    /\ lookups = <<>>
    /\ completionOrder = <<>>
    /\ searchResults = Absent
    /\ llmRequest = Absent
    /\ llmResponse = Absent
    /\ askResult = [state |-> "pending", value |-> Absent]

AskIdle == AskNotCalled(FALSE, <<>>)

\* NetworkView and GlobeView as mounted: nothing is selected.
NothingSelected ==
    /\ selectedNode = Null
    /\ nvSelectedEvent = Absent
    /\ showSearch = FALSE
    /\ searchQuery = <<>>
    /\ selectedLocationName = Null
    /\ selectedEvent = Absent
    /\ lastUiEvent = "mount"

\* The bubble map as mounted: no animation was started.
NoAnimation ==
    /\ zoomAnimationRef = 0
    /\ frames = <<>>
    /\ nextFrameId = 1
    /\ animations = <<>>
    /\ animClock = 0
    /\ staleWrite = FALSE
    /\ showBubbleMap = FALSE
    /\ bubbleMapPerson = Null
    /\ bubbleZoom = 100
    /\ bubblePan = <<0, 0>>
    /\ animationsAtClose = 0
    /\ writeAfterClose = FALSE

\* The Sidebar as mounted, with the props of its first render.
SidebarProps ==
    /\ sidebarMounted = TRUE
    /\ callsAtUnmount = [onYearRangeChange |-> 0, onLimitChange |-> 0]
    /\ yearRange = <<MinYear, MaxYear>>
    /\ yearRangeSynced = TRUE
    /\ rejected = 0
    /\ localKeywords = <<>>

\* App as constructed: the values of its useState calls, no effect run yet.
AppConstructed ==
    /\ appPc = "mount"
    /\ clustersFetch = [state |-> "none", value |-> Absent]
    /\ statsFetch = [state |-> "none", value |-> Absent]
    /\ enabledClusterIds = <<>>
    /\ enabledCategories = <<>>
    /\ isInitialized = FALSE
    /\ loading = TRUE
    /\ appError = FALSE
    /\ loadRequest = Absent
    /\ loadFetch = [state |-> "none", value |-> Absent]
    /\ listBeforeLoad = <<>>

\* NetworkView before the D3 effect has run.
NoForceLayout ==
    /\ forceNodes = <<>>
    /\ dragSubject = Null

\* RotatingEarth before it is mounted.
NoEarth ==
    /\ earthMounted = FALSE
    /\ earthSelected = Null
    /\ earthFrames = <<>>
    /\ earthNextFrameId = 1
    /\ earthAnimations = <<>>
    /\ earthClock = 0
    /\ rotation = <<0, 0>>
    /\ scale = 0
    /\ earthWriters = <<>>

\* useAIChat as constructed.
NoChat ==
    /\ messages = <<>>
    /\ chatLoading = FALSE
    /\ chatPending = <<>>
    /\ chatAsked = 0

\* The document view as constructed: no event was selected yet.
NoDocument ==
    /\ docHasKey = FALSE
    /\ documentText = Absent
    /\ documentMeta = Absent
    /\ documentAI = Absent
    /\ documentLoading = FALSE
    /\ documentAILoading = FALSE
    /\ docCalls = <<>>

\* A Relationship record with its position in the list as identifier.
Rel(i, p) ==
    [id |-> i, actor |-> p.actor, target |-> p.target,
     timestamp |-> p.timestamp, location |-> p.location]

\* relationships is any list of at most MaxRels records with fields from
\* Payloads.
RelationshipsFrom(Payloads) ==
    \E n \in 0..MaxRels : \E f \in [1..n -> Payloads] :
        relationships = [i \in 1..n |-> Rel(i, f[i])]

(***************************************************************************)
(* Inputs: entity names and locations.                                     *)
(***************************************************************************)
\* Entity names; the last one contains the text "|||".
NameA == <<"a">>
NameB == <<"b">>
NameC == <<"c">>
NameBSepA == <<"b","|","|","|","a">>

Names == {NameA, NameB, NameBSepA}

\* Location strings: absent, empty, a table key, a lower-cased key, a string
\* normalised onto another's name, a table key no rule rewrites, and a
\* string no table entry or rule matches.
LocationInputs ==
    {Null, <<>>, <<"P","a","r","i","s">>, <<"p","a","r","i","s">>, <<"P","a","r","i","s",","," ","F","r","a","n","c","e">>,
     <<"M","o","n","a","c","o">>, <<"O","z">>}

\* getLocationCoords and normalizeLocation on the input locations, computed
\* once.
CoordsOfLocation == [l \in LocationInputs |-> getLocationCoords(l)]

NormalizedOf == [l \in LocationInputs |-> normalizeLocation(l)]

(***************************************************************************)
(* components/GlobeView.tsx: locationData                                  *)
(***************************************************************************)
UNKNOWN_NAME == <<"U","n","k","n","o","w","n","/","U","n","s","p","e","c","i","f","i","e","d">>

\* LocationStep without the early return of the unmappable-location branch: the
\* record is pushed to the unknown events and to its named bucket as well.
LocationStepNoReturn(acc, rel) ==
    IF ~Truthy(rel.location)
    THEN [acc EXCEPT !.unknownEvents = Append(@, rel),
                     !.unknownPeople = @ \cup {rel.actor, rel.target}]
    ELSE
    LET normalized == NormalizedOf[rel.location]
        coords == CoordsOfLocation[rel.location]
        acc1 == IF coords = NoCoords
                THEN [acc EXCEPT !.unknownEvents = Append(@, rel),
                                 !.unknownPeople = @ \cup {rel.actor, rel.target}]
                ELSE acc
        at == IndexWhere(acc1.locations, LAMBDA l : l.name = normalized)
        locs == IF at = 0
                THEN Append(acc1.locations,
                            [name |-> normalized, coords |-> coords,
                             events |-> <<>>, people |-> {}])
                ELSE acc1.locations
        k == IF at = 0 THEN Len(locs) ELSE at
    IN  [acc1 EXCEPT !.locations =
            [locs EXCEPT ![k].events = Append(@, rel),
                         ![k].people = @ \cup {rel.actor, rel.target}]]

\* One iteration of relationships.forEach in the locationData memo.
LocationStep(acc, rel) ==
    IF ~Truthy(rel.location)
    THEN [acc EXCEPT !.unknownEvents = Append(@, rel),
                     !.unknownPeople = @ \cup {rel.actor, rel.target}]
    ELSE
    LET normalized == NormalizedOf[rel.location]
        coords == CoordsOfLocation[rel.location]
    IN  IF coords = NoCoords
        THEN [acc EXCEPT !.unknownEvents = Append(@, rel),
                         !.unknownPeople = @ \cup {rel.actor, rel.target}]
        ELSE
        LET at == IndexWhere(acc.locations, LAMBDA l : l.name = normalized)
            locs == IF at = 0
                    THEN Append(acc.locations,
                                [name |-> normalized, coords |-> coords,
                                 events |-> <<>>, people |-> {}])
                    ELSE acc.locations
            k == IF at = 0 THEN Len(locs) ELSE at
        IN  [acc EXCEPT !.locations =
                [locs EXCEPT ![k].events = Append(@, rel),
                             ![k].people = @ \cup {rel.actor, rel.target}]]

RECURSIVE LocationFold(_, _, _)
LocationFold(rels, i, acc) ==
    IF i > Len(rels) THEN acc
    ELSE LocationFold(rels, i + 1, LocationStep(acc, rels[i]))

EventCount(loc) == Len(loc.events)

\* Mutation of unknown: the synthetic bucket is made even without events.
unknownAlways(unknownEvents, unknownPeople) ==
    <<[name |-> UNKNOWN_NAME, coords |-> NoCoords, events |-> unknownEvents,
       people |-> unknownPeople, isUnknown |-> TRUE]>>

\* const unknown = unknownEvents.length > 0 ? {...} : null, as an optional.
unknown(unknownEvents, unknownPeople) ==
    IF Len(unknownEvents) > 0
    THEN <<[name |-> UNKNOWN_NAME, coords |-> NoCoords, events |-> unknownEvents,
            people |-> unknownPeople, isUnknown |-> TRUE]>>
    ELSE <<>>

\* The useMemo computing { locationData, unknownLocationData }.
locationData(rels) ==
    LET acc == LocationFold(rels, 1,
                   [locations |-> <<>>, unknownEvents |-> <<>>, unknownPeople |-> {}])
        sortedLocations == SortDescBy(acc.locations, EventCount)
    IN  [locationData |-> sortedLocations,
         unknownLocationData |-> unknown(acc.unknownEvents, acc.unknownPeople)]

(***************************************************************************)
(* components/NetworkView.tsx: graphData                                   *)
(***************************************************************************)
\* The cap of slice(0, 200), scaled down to the size of the model's inputs.
TopEntities == 2

\* map.set(name, (map.get(name) || 0) + 1) on an insertion-ordered Map kept
\* as a sequence of [name, count] entries.
CountUp(entries, name) ==
    LET at == IndexWhere(entries, LAMBDA e : e.name = name)
    IN  IF at = 0 THEN Append(entries, [name |-> name, count |-> 1])
        ELSE [entries EXCEPT ![at].count = @ + 1]

RECURSIVE ConnectionCount(_, _, _)
ConnectionCount(rels, i, entries) ==
    IF i > Len(rels) THEN entries
    ELSE ConnectionCount(rels, i + 1,
             CountUp(CountUp(entries, rels[i].actor), rels[i].target))

EntryCount(e) == e.count

\* Array.prototype.slice(0, n)
SliceTo(s, n) == SubSeq(s, 1, IF Len(s) < n THEN Len(s) ELSE n)

\* Array.from(connectionCount.entries()).sort(...).slice(0, 200).map(...)
TopEntitiesOf(rels) ==
    LET sorted == SortDescBy(ConnectionCount(rels, 1, <<>>), EntryCount)
        top == SliceTo(sorted, TopEntities)
    IN  [i \in 1..Len(top) |-> [id |-> top[i].name, connections |-> top[i].count]]

\* [rel.actor, rel.target].sort().join('|')
GraphLinkKey(rel) == JoinPair(SortPair(rel.actor, rel.target), <<"|">>)

\* GraphLinkStep testing only the actor against the top set.
GraphLinkStepActorOnly(acc, rel, topSet) ==
    IF rel.actor \in topSet /\ rel.actor # rel.target
    THEN IF GraphLinkKey(rel) \notin acc.linkMap
         THEN [linkMap |-> acc.linkMap \cup {GraphLinkKey(rel)},
               links |-> Append(acc.links,
                                [source |-> rel.actor, target |-> rel.target])]
         ELSE acc
    ELSE acc

\* One iteration of the second relationships.forEach of graphData.
GraphLinkStep(acc, rel, topSet) ==
    IF rel.actor \in topSet /\ rel.target \in topSet /\ rel.actor # rel.target
    THEN IF GraphLinkKey(rel) \notin acc.linkMap
         THEN [linkMap |-> acc.linkMap \cup {GraphLinkKey(rel)},
               links |-> Append(acc.links,
                                [source |-> rel.actor, target |-> rel.target])]
         ELSE acc
    ELSE acc

RECURSIVE GraphLinkFold(_, _, _, _)
GraphLinkFold(rels, i, acc, topSet) ==
    IF i > Len(rels) THEN acc
    ELSE GraphLinkFold(rels, i + 1, GraphLinkStep(acc, rels[i], topSet), topSet)

\* The useMemo computing { nodes, links } of the flat graph.
graphData(rels) ==
    LET topEntities == TopEntitiesOf(rels)
        topSet == {topEntities[i].id : i \in 1..Len(topEntities)}
    IN  [nodes |-> topEntities,
         links |-> GraphLinkFold(rels, 1, [linkMap |-> {}, links |-> <<>>],
                                 topSet).links]

(***************************************************************************)
(* components/GlobeView.tsx: bubbleMapData                                 *)
(***************************************************************************)
SEP3 == <<"|","|","|">>

\* peopleMap: create the entry when absent, then push the event and count it.
PersonAdd(people, name, event) ==
    LET at == IndexWhere(people, LAMBDA q : q.name = name)
        withEntry == IF at = 0
                     THEN Append(people, [name |-> name, connections |-> 0,
                                          events |-> <<>>])
                     ELSE people
        k == IF at = 0 THEN Len(withEntry) ELSE at
    IN  [withEntry EXCEPT ![k].events = Append(@, event),
                          ![k].connections = @ + 1]

\* [event.actor, event.target].sort().join('|||')
BubbleLinkKey(event) == JoinPair(SortPair(event.actor, event.target), SEP3)

\* linkMap: an insertion-ordered Map from key to the events on that key.
LinkMapPush(linkMap, key, event) ==
    LET at == IndexWhere(linkMap, LAMBDA e : e.key = key)
    IN  IF at = 0 THEN Append(linkMap, [key |-> key, events |-> <<event>>])
        ELSE [linkMap EXCEPT ![at].events = Append(@, event)]

RECURSIVE BubbleFold(_, _, _)
BubbleFold(events, i, acc) ==
    IF i > Len(events) THEN acc
    ELSE BubbleFold(events, i + 1,
            [peopleMap |-> PersonAdd(PersonAdd(acc.peopleMap, events[i].actor,
                                               events[i]),
                                     events[i].target, events[i]),
             linkMap |-> LinkMapPush(acc.linkMap, BubbleLinkKey(events[i]),
                                     events[i])])

\* const [source, target] = key.split('|||'); links.push({source, target, events})
BubbleLinkOf(entry) ==
    LET parts == split(entry.key, SEP3)
    IN  [source |-> parts[1], target |-> parts[2], events |-> entry.events]

PersonConnections(q) == q.connections

\* The useMemo computing the bubble map of the unlocated events.
bubbleMapData(unknownLocationData) ==
    IF unknownLocationData = <<>> THEN [nodes |-> <<>>, links |-> <<>>]
    ELSE
    LET acc == BubbleFold(unknownLocationData[1].events, 1,
                          [peopleMap |-> <<>>, linkMap |-> <<>>])
    IN  [nodes |-> SortDescBy(acc.peopleMap, PersonConnections),
         links |-> [i \in 1..Len(acc.linkMap) |-> BubbleLinkOf(acc.linkMap[i])]]

(***************************************************************************)
(* lib/ai-explanations.ts: spatial adapter                                 *)
(***************************************************************************)
\* A non-negative real kept as an exact fraction num/den.
Frac(n, d) == [num |-> n, den |-> d]

FracEq(x, y) == x.num * y.den = y.num * x.den

FracLess(x, y) == x.num * y.den < y.num * x.den

\* if (maxCount <= 1) return 0.5; return Math.min(1, count / maxCount)
calculateLinkStrength(count, maxCount) ==
    IF maxCount <= 1 THEN Frac(1, 2)
    ELSE IF count >= maxCount THEN Frac(1, 1) ELSE Frac(count, maxCount)

\* `${link.source}|||${link.target}`
SpatialLinkKey(link) == link.source \o SEP3 \o link.target

\* linkCounts: occurrences of each key in the link list.
LinkCount(links, key) ==
    Cardinality({i \in 1..Len(links) : SpatialLinkKey(links[i]) = key})

\* Math.max(...Array.from(linkCounts.values()), 1)
MaxLinkCount(links) ==
    Max({LinkCount(links, SpatialLinkKey(links[i])) : i \in 1..Len(links)} \cup {1})

\* One element of links.map(...) in adaptToSpatialGraph: count, strength, flag.
SpatialLinkOf(links, link) ==
    LET key == SpatialLinkKey(link)
        count == IF LinkCount(links, key) = 0 THEN 1 ELSE LinkCount(links, key)
        strength == calculateLinkStrength(count, MaxLinkCount(links))
    IN  [source |-> link.source, target |-> link.target, count |-> count,
         strength |-> strength, isWeakLink |-> FracLess(strength, Frac(3, 10))]

\* spatialLinks of adaptToSpatialGraph.
spatialLinks(links) == [i \in 1..Len(links) |-> SpatialLinkOf(links, links[i])]

\* adjacency: every node gets an empty Set, then each link adds both
\* directions when the endpoint is a listed node (adjacency.get(x)?.add(y)).
\* A Set is kept as the sequence of its members in insertion order.
SetAdd(seq, x) == IF \E i \in 1..Len(seq) : seq[i] = x THEN seq ELSE Append(seq, x)

AdjacencyAdd(adjacency, from, to) ==
    IF from \in DOMAIN adjacency
    THEN [adjacency EXCEPT ![from] = SetAdd(@, to)]
    ELSE adjacency

RECURSIVE AdjacencyFold(_, _, _)
AdjacencyFold(links, i, adjacency) ==
    IF i > Len(links) THEN adjacency
    ELSE AdjacencyFold(links, i + 1,
             AdjacencyAdd(AdjacencyAdd(adjacency, links[i].source, links[i].target),
                          links[i].target, links[i].source))

\* BuildAdjacency adding each link in its own direction only.
RECURSIVE AdjacencyFoldDirected(_, _, _)
AdjacencyFoldDirected(links, i, adjacency) ==
    IF i > Len(links) THEN adjacency
    ELSE AdjacencyFoldDirected(links, i + 1,
             AdjacencyAdd(adjacency, links[i].source, links[i].target))

BuildAdjacencyDirected(nodes, links) ==
    AdjacencyFoldDirected(links, 1, [n \in {nodes[i].id : i \in 1..Len(nodes)} |-> <<>>])

BuildAdjacency(nodes, links) ==
    AdjacencyFold(links, 1, [n \in {nodes[i].id : i \in 1..Len(nodes)} |-> <<>>])

\* neighbors.forEach: an unvisited neighbour gets currentDist + 1 and is queued.
RECURSIVE VisitNeighbors(_, _, _, _)
VisitNeighbors(neighbors, i, currentDist, st) ==
    IF i > Len(neighbors) THEN st
    ELSE IF neighbors[i] \in DOMAIN st.distances
    THEN VisitNeighbors(neighbors, i + 1, currentDist, st)
    ELSE VisitNeighbors(neighbors, i + 1, currentDist,
             [distances |-> st.distances @@ (neighbors[i] :> currentDist + 1),
              queue |-> Append(st.queue, neighbors[i])])

\* while (queue.length > 0) { current = queue.shift(); ... }
RECURSIVE BfsLoop(_, _)
BfsLoop(adjacency, st) ==
    IF st.queue = <<>> THEN st.distances
    ELSE LET current == Head(st.queue)
             neighbors == IF current \in DOMAIN adjacency
                          THEN adjacency[current] ELSE <<>>
         IN  BfsLoop(adjacency,
                     VisitNeighbors(neighbors, 1, st.distances[current],
                                    [distances |-> st.distances,
                                     queue |-> Tail(st.queue)]))

EmptyMap == [x \in {} |-> 0]

\* BFS from the centre node; the result maps each reached node to its distance.
calculateHopDistances(nodes, links, centerNode) ==
    LET adjacency == BuildAdjacency(nodes, links)
    IN  IF centerNode \in DOMAIN adjacency
        THEN BfsLoop(adjacency, [distances |-> (centerNode :> 0),
                                 queue |-> <<centerNode>>])
        ELSE EmptyMap

(***************************************************************************)
(* components/EntityInspector.tsx: groupRelationshipsByTarget              *)
(***************************************************************************)
\* rel.actor === entityName ? rel.target : rel.actor
OtherEntity(rel, entityName) ==
    IF rel.actor = entityName THEN rel.target ELSE rel.actor

\* GroupDates keeping the first dated timestamp as the earliest date.
GroupDatesFirstEarliest(group, rel) ==
    IF Truthy(rel.timestamp)
    THEN [group EXCEPT
            !.earliestDate = IF ~Truthy(@) THEN rel.timestamp ELSE @,
            !.latestDate =
                IF ~Truthy(@) \/ StrLess(@, rel.timestamp) THEN rel.timestamp ELSE @]
    ELSE group

\* The date updates of one record on its group.
GroupDates(group, rel) ==
    IF Truthy(rel.timestamp)
    THEN [group EXCEPT
            !.earliestDate =
                IF ~Truthy(@) \/ StrLess(rel.timestamp, @) THEN rel.timestamp ELSE @,
            !.latestDate =
                IF ~Truthy(@) \/ StrLess(@, rel.timestamp) THEN rel.timestamp ELSE @]
    ELSE group

\* One iteration of relationships.forEach in groupRelationshipsByTarget.
GroupStep(groups, rel, entityName) ==
    LET otherEntity == OtherEntity(rel, entityName)
        at == IndexWhere(groups, LAMBDA g : g.target = otherEntity)
        withGroup == IF at = 0
                     THEN Append(groups, [target |-> otherEntity, count |-> 0,
                                          relationships |-> <<>>,
                                          earliestDate |-> Null,
                                          latestDate |-> Null])
                     ELSE groups
        k == IF at = 0 THEN Len(withGroup) ELSE at
        counted == [withGroup[k] EXCEPT !.count = @ + 1,
                                        !.relationships = Append(@, rel)]
    IN  [withGroup EXCEPT ![k] = GroupDates(counted, rel)]

RECURSIVE GroupFold(_, _, _, _)
GroupFold(rels, i, groups, entityName) ==
    IF i > Len(rels) THEN groups
    ELSE GroupFold(rels, i + 1, GroupStep(groups, rels[i], entityName), entityName)

GroupCount(g) == g.count

\* Array.from(groups.values()).sort((a, b) => b.count - a.count)
groupRelationshipsByTarget(rels, entityName) ==
    SortDescBy(GroupFold(rels, 1, <<>>, entityName), GroupCount)

(***************************************************************************)
(* Specification SpecLoc: location grouping of any relationship list.      *)
(***************************************************************************)
LocPayloads ==
    [actor : {NameA}, target : {NameB, NameC}, timestamp : {Null},
     location : LocationInputs]

AggIdle == aggOp = "none" /\ derived = <<>>

InitLoc ==
    /\ RelationshipsFrom(LocPayloads)
    /\ AggIdle
    /\ NoDocument
    /\ NoChat
    /\ NoEarth
    /\ NoForceLayout
    /\ AppConstructed
    /\ SidebarProps
    /\ NoAnimation
    /\ DebounceIdle
    /\ AskIdle
    /\ NothingSelected

\* GlobeView renders: the locationData memo runs on the relationships prop.
ComputeLocationData ==
    /\ aggOp = "none"
    /\ aggOp' = "locationData"
    /\ derived' = locationData(relationships)
    /\ UNCHANGED <<relationships, exceptAgg>>

NextLoc == ComputeLocationData

SpecLoc == InitLoc /\ [][NextLoc]_vars

\* Every bucket of a locationData result, the synthetic one last.
AllBuckets(d) == d.locationData \o d.unknownLocationData

\* The (bucket, position) places at which record r is listed.
PlacesOf(d, r) ==
    {<<b, k>> \in (1..Len(AllBuckets(d))) \X (1..MaxRels + 1) :
        k <= Len(AllBuckets(d)[b].events) /\ AllBuckets(d)[b].events[k] = r}

RECURSIVE SumEvents(_, _)
SumEvents(buckets, i) ==
    IF i > Len(buckets) THEN 0
    ELSE Len(buckets[i].events) + SumEvents(buckets, i + 1)

\* C1: location grouping is a partition: every input record is listed in
\* exactly one bucket, exactly once, and the buckets' event counts add up to
\* the input length.
C1_Partition ==
    aggOp = "locationData" =>
        /\ \A i \in 1..Len(relationships) :
               Cardinality(PlacesOf(derived, relationships[i])) = 1
        /\ SumEvents(AllBuckets(derived), 1) = Len(relationships)

\* A grouping with a named bucket of two records (two spellings normalised to
\* one name) together with the synthetic bucket.
C1_Witness ==
    /\ aggOp = "locationData"
    /\ Len(relationships) = 3
    /\ derived.unknownLocationData # <<>>
    /\ \E b \in 1..Len(derived.locationData) :
           /\ Len(derived.locationData[b].events) = 2
           /\ derived.locationData[b].events[1].location
                  # derived.locationData[b].events[2].location

\* Record r is listed in the synthetic bucket of d.
InUnknownBucket(d, r) ==
    /\ d.unknownLocationData # <<>>
    /\ \E k \in 1..Len(d.unknownLocationData[1].events) :
          d.unknownLocationData[1].events[k] = r

\* The names of the located buckets of d listing record r.
NamedBucketsOf(d, r) ==
    {d.locationData[b].name : b \in {c \in 1..Len(d.locationData) :
        \E k \in 1..Len(d.locationData[c].events) : d.locationData[c].events[k] = r}}

\* The location of r is null or empty, or resolves to no coordinates.
Unlocated(r) == ~Truthy(r.location) \/ CoordsOfLocation[r.location] = NoCoords

\* C23: a record is in the synthetic 'Unknown/Unspecified' bucket if and
\* only if its location is null or empty or resolves to no known
\* coordinates; every other record is in the bucket named by the
\* normalisation of its location; and the synthetic bucket exists only when
\* it holds at least one record.
C23_UnknownBucket ==
    aggOp = "locationData" =>
        /\ \A i \in 1..Len(relationships) :
              LET r == relationships[i]
              IN  /\ InUnknownBucket(derived, r) <=> Unlocated(r)
                  /\ ~Unlocated(r) =>
                        NamedBucketsOf(derived, r) = {NormalizedOf[r.location]}
        /\ derived.unknownLocationData # <<>> =>
              /\ Len(derived.unknownLocationData[1].events) >= 1
              /\ derived.unknownLocationData[1].name = UNKNOWN_NAME
        /\ \A b \in 1..Len(derived.locationData) : Len(derived.locationData[b].events) >= 1

\* A record without location and one whose location matches no table entry
\* are both in the synthetic bucket, next to a record in the bucket its
\* location is normalised to, under another name than the location's.
C23_Witness ==
    /\ aggOp = "locationData"
    /\ \E i, j, k \in 1..Len(relationships) :
          /\ relationships[i].location = Null
          /\ Truthy(relationships[j].location)
          /\ InUnknownBucket(derived, relationships[i])
          /\ InUnknownBucket(derived, relationships[j])
          /\ ~InUnknownBucket(derived, relationships[k])
          /\ NamedBucketsOf(derived, relationships[k]) # {relationships[k].location}

\* Every record is located and there is no synthetic bucket.
NoUnknownBucketWhenAllLocated ==
    (aggOp = "locationData" /\ \A i \in 1..Len(relationships) : ~Unlocated(relationships[i]))
        => derived.unknownLocationData = <<>>

(***************************************************************************)
(* Specification SpecGraph: the flat graph, the bubble map and the spatial *)
(* adapter on any list of undated, unlocated records between the names.    *)
(***************************************************************************)
GraphPayloads ==
    [actor : Names, target : Names, timestamp : {Null}, location : {Null}]

InitGraph ==
    /\ RelationshipsFrom(GraphPayloads)
    /\ AggIdle
    /\ NoDocument
    /\ NoChat
    /\ NoEarth
    /\ NoForceLayout
    /\ AppConstructed
    /\ SidebarProps
    /\ NoAnimation
    /\ DebounceIdle
    /\ AskIdle
    /\ NothingSelected

\* The GraphNode[] handed to the spatial adapter: one node per entity of the
\* records, val its occurrence count.
NodesOf(rels) ==
    LET entries == ConnectionCount(rels, 1, <<>>)
    IN  [i \in 1..Len(entries) |-> [id |-> entries[i].name, val |-> entries[i].count]]

\* The GraphLink[] handed to the spatial adapter: one link per record.
LinksOf(rels) ==
    [i \in 1..Len(rels) |-> [source |-> rels[i].actor, target |-> rels[i].target]]

\* NetworkView renders: the graphData memo runs on the relationships prop.
ComputeGraphData ==
    /\ aggOp = "none"
    /\ aggOp' = "graphData"
    /\ derived' = graphData(relationships)
    /\ UNCHANGED <<relationships, exceptAgg>>

\* GlobeView renders: bubbleMapData runs on the unknown bucket of locationData.
ComputeBubbleMapData ==
    /\ aggOp = "none"
    /\ aggOp' = "bubbleMapData"
    /\ derived' = bubbleMapData(locationData(relationships).unknownLocationData)
    /\ UNCHANGED <<relationships, exceptAgg>>

\* adaptToSpatialGraph(nodes, links, relationships, {centerNode}): its links
\* and the hop distances it computes.
AdaptToSpatialGraph(centerNode) ==
    /\ aggOp = "none"
    /\ aggOp' = "spatialGraph"
    /\ derived' = [centerNode |-> centerNode,
                   links |-> spatialLinks(LinksOf(relationships)),
                   hopDistances |-> calculateHopDistances(NodesOf(relationships),
                                        LinksOf(relationships), centerNode)]
    /\ UNCHANGED <<relationships, exceptAgg>>

NextGraph ==
    \/ ComputeGraphData
    \/ ComputeBubbleMapData
    \/ \E centerNode \in Names : AdaptToSpatialGraph(centerNode)

SpecGraph == InitGraph /\ [][NextGraph]_vars

\* Reference notions on the input list.
NodeIds(rels) == {rels[i].actor : i \in 1..Len(rels)} \cup {rels[i].target : i \in 1..Len(rels)}

\* x and y are joined by some link, in either direction.
Adjacent(links, x, y) ==
    \E i \in 1..Len(links) :
        \/ links[i].source = x /\ links[i].target = y
        \/ links[i].source = y /\ links[i].target = x

\* The nodes within k edges of the centre.
RECURSIVE Ball(_, _, _)
Ball(links, center, k) ==
    IF k = 0 THEN {center}
    ELSE LET inner == Ball(links, center, k - 1)
         IN  inner \cup {n \in NodeIds(relationships) :
                            \E m \in inner : Adjacent(links, m, n)}

\* C2: for a centre that is a listed node, calculateHopDistances maps exactly
\* the nodes connected to the centre, each to the length of a shortest path
\* in the undirected link graph (the centre to 0); nodes of other components
\* are absent.
C2_HopDistances ==
    (aggOp = "spatialGraph" /\ derived.centerNode \in NodeIds(relationships)) =>
        LET links == LinksOf(relationships)
            c == derived.centerNode
            far == Cardinality(NodeIds(relationships))
        IN  /\ DOMAIN derived.hopDistances = Ball(links, c, far)
            /\ \A n \in DOMAIN derived.hopDistances :
                   derived.hopDistances[n] =
                       Min({k \in 0..far : n \in Ball(links, c, k)})

\* A chain of three nodes given by links pointing towards the centre, with a
\* duplicate link: the far end is at distance 2.
C2_Witness ==
    /\ aggOp = "spatialGraph"
    /\ Len(relationships) = 3
    /\ \E n \in DOMAIN derived.hopDistances : derived.hopDistances[n] = 2
    /\ \E i, j \in 1..3 :
           /\ i # j
           /\ relationships[i].actor = relationships[j].actor
           /\ relationships[i].target = relationships[j].target
    /\ \A i \in 1..3 : relationships[i].actor # derived.centerNode

\* No two links of the list join the same unordered pair of names.
OneLinkPerPair(links) ==
    \A i, j \in 1..Len(links) :
        {links[i].source, links[i].target} = {links[j].source, links[j].target}
            => i = j

\* C4: every derived link list (flat graph, bubble map) holds at most one link
\* per unordered pair of entity names.
C4_OneLinkPerPair ==
    (aggOp \in {"graphData", "bubbleMapData"}) => OneLinkPerPair(derived.links)

\* Does the name contain the separator text "|||"?
HasSeparator(name) == includes(name, SEP3)

\* The flat graph's list always has one link per pair, and the bubble map's has
\* when no entity name of the input contains "|||".
OneLinkPerPairWithoutSeparator ==
    /\ aggOp = "graphData" => OneLinkPerPair(derived.links)
    /\ (aggOp = "bubbleMapData" /\ \A n \in NodeIds(relationships) : ~HasSeparator(n))
           => OneLinkPerPair(derived.links)

\* Number of input links between the unordered pair of link l.
PairMultiplicity(links, l) ==
    Cardinality({i \in 1..Len(links) :
        {links[i].source, links[i].target} = {l.source, l.target}})

\* C5: a pair occurring N times in the link input yields a single derived link,
\* of multiplicity N and strength min(1, N/maxCount), maxCount the largest
\* multiplicity; strength 1 at maxCount; weak exactly when strength < 0.3.
C5_LinkMultiplicityStrength ==
    aggOp = "spatialGraph" =>
        LET links == LinksOf(relationships)
            maxCount == Max({PairMultiplicity(links, links[i]) : i \in 1..Len(links)}
                            \cup {1})
        IN  /\ OneLinkPerPair(derived.links)
            /\ \A i \in 1..Len(derived.links) :
                   LET l == derived.links[i]
                       N == PairMultiplicity(links, l)
                   IN  /\ l.count = N
                       /\ FracEq(l.strength,
                                 IF N >= maxCount THEN Frac(1, 1) ELSE Frac(N, maxCount))
                       /\ l.isWeakLink <=> FracLess(l.strength, Frac(3, 10))

\* Occurrences of entity e as actor or target in the list.
Occurrences2(rels, e) ==
    Cardinality({i \in 1..Len(rels) : rels[i].actor = e})
        + Cardinality({i \in 1..Len(rels) : rels[i].target = e})

\* C6: the flat graph has min(cap, number of distinct entities) nodes, no
\* excluded entity occurs strictly more often than an included one, and every
\* link has both endpoints among the nodes.
C6_TopEntitiesCap ==
    aggOp = "graphData" =>
        LET ids == {derived.nodes[i].id : i \in 1..Len(derived.nodes)}
            all == NodeIds(relationships)
        IN  /\ Len(derived.nodes) =
                   (IF Cardinality(all) < TopEntities THEN Cardinality(all)
                    ELSE TopEntities)
            /\ Cardinality(ids) = Len(derived.nodes)
            /\ ids \subseteq all
            /\ \A e \in all \ ids : \A n \in ids :
                   Occurrences2(relationships, e) <= Occurrences2(relationships, n)
            /\ \A i \in 1..Len(derived.links) :
                   derived.links[i].source \in ids /\ derived.links[i].target \in ids

\* More entities than the cap, a link kept between two top entities, and a
\* record joining a top entity to an excluded one.
C6_Witness ==
    /\ aggOp = "graphData"
    /\ Cardinality(NodeIds(relationships)) > TopEntities
    /\ Len(derived.nodes) = TopEntities
    /\ Len(derived.links) = 1
    /\ LET ids == {derived.nodes[i].id : i \in 1..Len(derived.nodes)}
       IN  \E i \in 1..Len(relationships) :
               relationships[i].actor \in ids /\ relationships[i].target \notin ids

(***************************************************************************)
(* Specification SpecGroup: connection groups of a focal entity, on any    *)
(* list of records that touch it.                                          *)
(***************************************************************************)
\* Timestamps are null or an ISO date string.
Date2001 == <<"2","0","0","1","-","0","3","-","0","1">>
Date2002 == <<"2","0","0","2","-","0","1","-","0","1">>

Timestamps == {Null, Date2001, Date2002}

FocalEntity == NameA

GroupPayloads ==
    {p \in [actor : Names, target : Names, timestamp : Timestamps, location : {Null}] :
        p.actor = FocalEntity \/ p.target = FocalEntity}

InitGroup ==
    /\ RelationshipsFrom(GroupPayloads)
    /\ AggIdle
    /\ NoDocument
    /\ NoChat
    /\ NoEarth
    /\ NoForceLayout
    /\ AppConstructed
    /\ SidebarProps
    /\ NoAnimation
    /\ DebounceIdle
    /\ AskIdle
    /\ NothingSelected

\* EntityInspector renders: the groups memo runs on the entity's records.
ComputeGroups ==
    /\ aggOp = "none"
    /\ aggOp' = "groups"
    /\ derived' = groupRelationshipsByTarget(relationships, FocalEntity)
    /\ UNCHANGED <<relationships, exceptAgg>>

NextGroup == ComputeGroups

SpecGroup == InitGroup /\ [][NextGroup]_vars

\* The counterparty of a record that touches the focal entity.
Counterparty(rel) == IF rel.actor = FocalEntity THEN rel.target ELSE rel.actor

\* The dated timestamps among the records with counterparty c.
DatesWith(rels, c) ==
    {rels[i].timestamp : i \in {j \in 1..Len(rels) :
        Counterparty(rels[j]) = c /\ rels[j].timestamp # Null}}

\* Position in the input of the first record with counterparty c.
FirstSeen(rels, c) == Min({i \in 1..Len(rels) : Counterparty(rels[i]) = c})

\* C7: each record is in exactly one group, the group of its counterparty; a
\* group's earliest/latest date is the least/greatest of its non-null
\* timestamps (null when it has none); groups are in descending order of record
\* count, equal counts in order of first appearance in the input.
C7_Groups ==
    aggOp = "groups" =>
        /\ \A i \in 1..Len(relationships) :
               /\ Cardinality({<<g, k>> \in (1..Len(derived)) \X (1..Len(relationships)) :
                       /\ k <= Len(derived[g].relationships)
                       /\ derived[g].relationships[k] = relationships[i]}) = 1
               /\ \E g \in 1..Len(derived) :
                       /\ derived[g].target = Counterparty(relationships[i])
                       /\ \E k \in 1..Len(derived[g].relationships) :
                              derived[g].relationships[k] = relationships[i]
        /\ \A g \in 1..Len(derived) :
               LET dates == DatesWith(relationships, derived[g].target)
               IN  /\ derived[g].count = Len(derived[g].relationships)
                   /\ dates = {} => derived[g].earliestDate = Null
                                    /\ derived[g].latestDate = Null
                   /\ dates # {} =>
                        /\ derived[g].earliestDate \in dates
                        /\ derived[g].latestDate \in dates
                        /\ \A d \in dates : ~StrLess(d, derived[g].earliestDate)
                                            /\ ~StrLess(derived[g].latestDate, d)
        /\ \A g, h \in 1..Len(derived) :
               g < h =>
                   \/ derived[g].count > derived[h].count
                   \/ /\ derived[g].count = derived[h].count
                      /\ FirstSeen(relationships, derived[g].target)
                             < FirstSeen(relationships, derived[h].target)

\* Two groups: the first-seen counterparty has one undated record, the other
\* has two records with different dates, the later date first, and is sorted
\* ahead of it.
C7_Witness ==
    /\ aggOp = "groups"
    /\ Len(derived) = 2
    /\ derived[1].count = 2
    /\ derived[1].earliestDate = Date2001
    /\ derived[1].latestDate = Date2002
    /\ derived[1].relationships[1].timestamp = Date2002
    /\ Counterparty(relationships[1]) = derived[2].target
    /\ derived[2].earliestDate = Null

(***************************************************************************)
(* Sidebar.tsx, NetworkView.tsx (MobileBottomNav): the debounced sliders.   *)
(* Time is counted in seconds.  A timeout set at time t with delay d is    *)
(* due at t + d; the browser runs its callback at some time not before.    *)
(* The parent that receives the callbacks and feeds the value back as a    *)
(* prop is outside these components; the value fed back is the local one.  *)
(***************************************************************************)

\* Most slider changes handled in one behaviour, all fields together.
MaxChanges == 3

\* Last second of the clock.
MaxTime == 4

\* The delay of the three debounce timeouts, 2000 ms.
DebounceDelay == 2

\* Values the sliders are moved to.
Years == {MinYear, MaxYear}

SidebarLimits == {100, 600}

MobileLimits == {500, 600}

Callbacks == {"onYearRangeChange", "onLimitChange", "mobileOnLimitChange"}

ChangesHandled ==
    Len(changes.onYearRangeChange) + Len(changes.onLimitChange)
        + Len(changes.mobileOnLimitChange)

\* clearTimeout(id): the timeout with that id, if still set, is dropped.
\* Mutation of clearTimeout: the timeout stays set.
clearTimeoutKeeps(pending, id) == pending

clearTimeout(pending, id) == [i \in DOMAIN pending \ {id} |-> pending[i]]

\* if (ref.current) clearTimeout(ref.current)
ClearExisting(ref) == IF ref # 0 THEN clearTimeout(timers, ref) ELSE timers

\* setTimeout(() => callback(value), 2000): the timeout it sets.  <change>
\* is the position of the change that set it in the callback's changes.
setTimeout(pending, callback, value) ==
    [i \in DOMAIN pending \cup {nextTimerId} |->
        IF i = nextTimerId
        THEN [callback |-> callback, value |-> value, due |-> now + DebounceDelay,
              change |-> Len(changes[callback]) + 1]
        ELSE pending[i]]

RecordChange(callback, value) ==
    [changes EXCEPT ![callback] = Append(@, [value |-> value, at |-> now])]

\* Sidebar.handleYearRangeChange(newRange)
handleYearRangeChange(newRange) ==
    /\ localYearRange' = newRange
    /\ timers' = setTimeout(ClearExisting(debounceTimerRef), "onYearRangeChange", newRange)
    /\ debounceTimerRef' = nextTimerId
    /\ nextTimerId' = nextTimerId + 1
    /\ changes' = RecordChange("onYearRangeChange", newRange)
    /\ UNCHANGED <<localLimit, mobileLocalLimit, limitDebounceTimerRef,
                   mobileDebounceTimerRef, now, calls>>

\* Mutation of MaxYearSliderChange: the slider does not compare the new
\* maximum with the minimum.
MaxYearSliderChangeUnguarded(newMax) ==
    /\ ChangesHandled < MaxChanges
    /\ handleYearRangeChange(<<localYearRange[1], newMax>>)
    /\ UNCHANGED exceptDebounce

\* onChange of the max year slider
MaxYearSliderChange(newMax) ==
    /\ ChangesHandled < MaxChanges
    /\ newMax >= localYearRange[1]
    /\ handleYearRangeChange(<<localYearRange[1], newMax>>)
    /\ UNCHANGED exceptDebounce

\* onChange of the min year slider
MinYearSliderChange(newMin) ==
    /\ ChangesHandled < MaxChanges
    /\ newMin <= localYearRange[2]
    /\ handleYearRangeChange(<<newMin, localYearRange[2]>>)
    /\ UNCHANGED exceptDebounce

\* Sidebar.handleLimitChange(newLimit), onChange of the limit slider
handleLimitChange(newLimit) ==
    /\ ChangesHandled < MaxChanges
    /\ localLimit' = newLimit
    /\ timers' = setTimeout(ClearExisting(limitDebounceTimerRef), "onLimitChange", newLimit)
    /\ limitDebounceTimerRef' = nextTimerId
    /\ nextTimerId' = nextTimerId + 1
    /\ changes' = RecordChange("onLimitChange", newLimit)
    /\ UNCHANGED <<localYearRange, mobileLocalLimit, debounceTimerRef,
                   mobileDebounceTimerRef, now, calls>>
    /\ UNCHANGED exceptDebounce

\* MobileBottomNav.handleLimitChange(newLimit), onChange of its slider
MobileHandleLimitChange(newLimit) ==
    /\ ChangesHandled < MaxChanges
    /\ mobileLocalLimit' = newLimit
    /\ timers' = setTimeout(ClearExisting(mobileDebounceTimerRef), "mobileOnLimitChange", newLimit)
    /\ mobileDebounceTimerRef' = nextTimerId
    /\ nextTimerId' = nextTimerId + 1
    /\ changes' = RecordChange("mobileOnLimitChange", newLimit)
    /\ UNCHANGED <<localYearRange, localLimit, debounceTimerRef,
                   limitDebounceTimerRef, now, calls>>
    /\ UNCHANGED exceptDebounce

\* A timeout that is due runs: () => callback(value).  The refs keep the id.
TimerFire(id) ==
    /\ id \in DOMAIN timers
    /\ timers[id].due <= now
    /\ timers' = [i \in DOMAIN timers \ {id} |-> timers[i]]
    /\ calls' = [calls EXCEPT ![timers[id].callback] =
                    Append(@, [value |-> timers[id].value, change |-> timers[id].change])]
    /\ UNCHANGED <<localYearRange, localLimit, mobileLocalLimit, debounceTimerRef,
                   limitDebounceTimerRef, mobileDebounceTimerRef, nextTimerId, now,
                   changes>>
    /\ UNCHANGED exceptDebounce

\* A second passes.
Tick ==
    /\ now < MaxTime
    /\ now' = now + 1
    /\ UNCHANGED <<localYearRange, localLimit, mobileLocalLimit, debounceTimerRef,
                   limitDebounceTimerRef, mobileDebounceTimerRef, timers,
                   nextTimerId, changes, calls>>
    /\ UNCHANGED exceptDebounce

(***************************************************************************)
(* Specification SpecDebounce: the three sliders moved at any times.       *)
(***************************************************************************)
InitDebounce ==
    /\ \E lo \in Years, hi \in Years :
          /\ lo <= hi
          /\ DebounceMounted(<<lo, hi>>, 100, 500)
    /\ relationships = <<>>
    /\ AggIdle
    /\ NoDocument
    /\ NoChat
    /\ NoEarth
    /\ NoForceLayout
    /\ AppConstructed
    /\ SidebarProps
    /\ NoAnimation
    /\ AskIdle
    /\ NothingSelected

NextDebounce ==
    \/ \E newMax \in Years : MaxYearSliderChange(newMax)
    \/ \E newMin \in Years : MinYearSliderChange(newMin)
    \/ \E newLimit \in SidebarLimits : handleLimitChange(newLimit)
    \/ \E newLimit \in MobileLimits : MobileHandleLimitChange(newLimit)
    \/ \E id \in DOMAIN timers : TimerFire(id)
    \/ Tick

SpecDebounce == InitDebounce /\ [][NextDebounce]_vars

\* How often change number k of callback c was delivered, and whether its
\* timeout is still set.
Delivered(c, k) == Cardinality({j \in 1..Len(calls[c]) : calls[c][j].change = k})

Pending(c, k) ==
    Cardinality({i \in DOMAIN timers : timers[i].callback = c /\ timers[i].change = k})

\* Change k of callback c was followed by another one less than the delay later.
Superseded(c, k) ==
    /\ k < Len(changes[c])
    /\ changes[c][k + 1].at - changes[c][k].at < DebounceDelay

\* C3: debounce collapse.  Of the changes to one debounced field (year range,
\* limit, mobile limit), one that is followed by the next change less than the
\* 2-second delay later is never delivered; the last change is delivered
\* exactly once as soon as its timeout has run, and not before the delay has
\* passed; each delivery carries the value of the change that set its timeout.
C3_DebounceCollapse ==
    \A c \in Callbacks :
        /\ \A k \in 1..Len(changes[c]) :
              /\ Superseded(c, k) => Delivered(c, k) = 0 /\ Pending(c, k) = 0
              /\ Delivered(c, k) + Pending(c, k) <= 1
        /\ Len(changes[c]) > 0 =>
              Delivered(c, Len(changes[c])) + Pending(c, Len(changes[c])) = 1
        /\ \A j \in 1..Len(calls[c]) :
              /\ calls[c][j].change \in 1..Len(changes[c])
              /\ calls[c][j].value = changes[c][calls[c][j].change].value
              /\ now >= changes[c][calls[c][j].change].at + DebounceDelay

\* Three year-range changes, each less than the delay after the one before and
\* with different values, and then the single delivery, of the third.
C3_Witness ==
    /\ Len(changes.onYearRangeChange) = 3
    /\ Superseded("onYearRangeChange", 1)
    /\ Superseded("onYearRangeChange", 2)
    /\ changes.onYearRangeChange[1].value # changes.onYearRangeChange[3].value
    /\ changes.onYearRangeChange[2].value # changes.onYearRangeChange[3].value
    /\ Len(calls.onYearRangeChange) = 1
    /\ calls.onYearRangeChange[1].value = changes.onYearRangeChange[3].value
    /\ DOMAIN timers = {}

(***************************************************************************)
(* ai-explanations.ts: askAI, the chat query builder.                      *)
(***************************************************************************)

\* Most terms extractSearchTerms returns.
MaxTerms == 3

\* Number of terms looked up, the 5 of slice(0, 5), scaled down.
SearchCap == 2

\* Characters of an excerpt's context that enter its dedupe key.
ExcerptKeyChars == 50

NO_KEY_ANSWER == "I'm not answering questions without my lawyer present."

NO_QUESTION_ANSWER == "What would you like to know?"

DECLINE_ANSWER == "I decline to answer that question."

FIFTH_ANSWER == "I'm invoking my Fifth Amendment rights on that one."

Whitespace == {" "}

\* String.prototype.trim
trim(s) ==
    LET kept == {i \in 1..Len(s) : s[i] \notin Whitespace}
    IN  IF kept = {} THEN <<>> ELSE SubSeq(s, Min(kept), Max(kept))

\* String.prototype.slice(0, n)
slice(s, n) == SubSeq(s, 1, IF Len(s) < n THEN Len(s) ELSE n)

Questions == {<<>>, <<" ", " ">>, <<" ", "n", "y", "c", " ">>}

Terms == {<<"j", "e", "t">>, <<"n", "y", "c">>, <<"p", "i", "l", "o", "t">>}

TermLength(term) == Len(term)

\* What extractSearchTerms can return: the terms are distinct.
TermLists ==
    UNION {{f \in [1..n -> Terms] : \A i, j \in 1..n : f[i] = f[j] => i = j} :
            n \in 0..(IF MaxTerms < Cardinality(Terms) THEN MaxTerms ELSE Cardinality(Terms))}

\* Promise states.
Fulfilled(value) == [state |-> "fulfilled", value |-> Present(value)]

Rejected == [state |-> "rejected", value |-> Absent]

PendingPromise == [state |-> "pending", value |-> Absent]

\* What deepSearch can resolve to for a term.  Every item carries the term it
\* was found for, so the same event, document or actor found for two terms
\* comes as two different objects.
DocOne == <<"d", "1">>

DocTwo == <<"d", "2">>

LongContext(last) == [i \in 1..(ExcerptKeyChars + 1) |-> IF i <= ExcerptKeyChars THEN "x" ELSE last]

SearchEvent(id, term) == [id |-> id, term |-> term]

SearchDocument(doc_id, term) == [doc_id |-> doc_id, term |-> term]

SearchActor(name, term) == [name |-> name, term |-> term]

SearchExcerpt(doc_id, context, term) == [doc_id |-> doc_id, context |-> context, term |-> term]

DeepSearchResultOf(shape, term) ==
    CASE shape = "one" ->
            [events |-> <<SearchEvent(1, term)>>,
             documents |-> <<SearchDocument(DocOne, term)>>,
             actors |-> <<SearchActor(NameA, term)>>,
             excerpts |-> Present(<<SearchExcerpt(DocOne, LongContext("a"), term)>>),
             query |-> term, totalExcerpts |-> 1]
      [] shape = "two" ->
            [events |-> <<SearchEvent(2, term), SearchEvent(1, term)>>,
             documents |-> <<SearchDocument(DocTwo, term), SearchDocument(DocOne, term)>>,
             actors |-> <<SearchActor(NameB, term), SearchActor(NameA, term)>>,
             excerpts |-> Present(<<SearchExcerpt(DocOne, LongContext("b"), term),
                                    SearchExcerpt(DocTwo, <<"x">>, term)>>),
             query |-> term, totalExcerpts |-> 2]
      [] shape = "noExcerpts" ->
            [events |-> <<SearchEvent(2, term)>>,
             documents |-> <<>>,
             actors |-> <<>>,
             excerpts |-> Absent,
             query |-> term, totalExcerpts |-> 0]

SearchShapes == {"one", "two", "noExcerpts"}

\* The keys of the four seen-sets.
EventKey(event) == event.id

DocumentKey(doc) == doc.doc_id

ActorKey(actor) == actor.name

ExcerptKey(excerpt) == excerpt.doc_id \o <<":">> \o slice(excerpt.context, ExcerptKeyChars)

\* result.excerpts || []
ExcerptsOf(result) == IF result.excerpts = Absent THEN <<>> ELSE result.excerpts[1]

HasKey(keyed, key) == \E i \in 1..Len(keyed) : keyed[i].key = key

\* Mutation of PushUnique: every item is pushed, seen or not.
PushAll(keyed, items, i) == keyed \o SubSeq(items, i, Len(items))

\* if (!seen.has(key)) { seen.add(key); list.push(item) }, for items[i..]
RECURSIVE PushUnique(_, _, _)
PushUnique(keyed, items, i) ==
    IF i > Len(items) THEN keyed
    ELSE PushUnique(IF HasKey(keyed, items[i].key) THEN keyed ELSE Append(keyed, items[i]),
                    items, i + 1)

Keyed(key, item) == [key |-> key, item |-> item]

ItemsOf(keyed) == [i \in 1..Len(keyed) |-> keyed[i].item]

\* The body of for (const result of allResults), for allResults[i..]
RECURSIVE MergeLoop(_, _, _)
MergeLoop(acc, allResults, i) ==
    IF i > Len(allResults) THEN acc
    ELSE LET result == allResults[i]
             excerpts == ExcerptsOf(result)
         IN  MergeLoop(
                [events |-> PushUnique(acc.events,
                    [j \in 1..Len(result.events) |->
                        Keyed(EventKey(result.events[j]), result.events[j])], 1),
                 documents |-> PushUnique(acc.documents,
                    [j \in 1..Len(result.documents) |->
                        Keyed(DocumentKey(result.documents[j]), result.documents[j])], 1),
                 actors |-> PushUnique(acc.actors,
                    [j \in 1..Len(result.actors) |->
                        Keyed(ActorKey(result.actors[j]), result.actors[j])], 1),
                 excerpts |-> PushUnique(acc.excerpts,
                    [j \in 1..Len(excerpts) |->
                        Keyed(ExcerptKey(excerpts[j]), excerpts[j])], 1)],
                allResults, i + 1)

\* The merged searchResults of a non-empty allResults.
MergeResults(allResults, firstTerm) ==
    LET acc == MergeLoop([events |-> <<>>, documents |-> <<>>, actors |-> <<>>,
                          excerpts |-> <<>>], allResults, 1)
    IN  [events |-> ItemsOf(acc.events),
         documents |-> ItemsOf(acc.documents),
         actors |-> ItemsOf(acc.actors),
         excerpts |-> Present(ItemsOf(acc.excerpts)),
         query |-> firstTerm,
         totalExcerpts |-> Len(acc.excerpts)]

\* results.filter(r => r !== null)
RECURSIVE FilterNotNull(_, _)
FilterNotNull(results, i) ==
    IF i > Len(results) THEN <<>>
    ELSE results[i] \o FilterNotNull(results, i + 1)

\* The catch of one search promise: the promise resolves to null.
\* Mutation of searchCatch: the search promise rejects.
searchCatchRethrows(term) == Rejected

searchCatch(term) == Fulfilled(Absent)

\* await Promise.all(searchPromises): the values, in the order of the promises,
\* whatever the order they settled in.  A value is a DeepSearchResult | null.
\* Mutation of PromiseAll: the values in the order the promises settled.
PromiseAllAsSettled(promises, settled) ==
    [i \in 1..Len(promises) |-> promises[settled[i]].value[1]]

PromiseAll(promises, settled) ==
    [i \in 1..Len(promises) |-> promises[i].value[1]]

\* The catch of askAI's try block.
\* Mutation of askCatch: the error leaves askAI.
askCatchRethrows(error) == Rejected

askCatch(error) == Fulfilled(FIFTH_ANSWER)

\* How the language model call can go: fetch rejects, or it gives a response
\* whose json() rejects or gives data.
\* data is null or an object; choices, message and content are optional.
JsonNull == [isNull |-> TRUE, choices |-> Absent]

JsonObject(choices) == [isNull |-> FALSE, choices |-> choices]

Choice(message) == [message |-> message]

Message(content) == [content |-> content]

JsonData ==
    {JsonNull,
     JsonObject(Absent),
     JsonObject(Present(<<>>)),
     JsonObject(Present(<<Choice(Absent)>>)),
     JsonObject(Present(<<Choice(Present(Message(Absent)))>>)),
     JsonObject(Present(<<Choice(Present(Message(Present(""))))>>)),
     JsonObject(Present(<<Choice(Present(Message(Present("He was a client."))))>>))}

LlmOutcome(fetch, ok, json, data) == [fetch |-> fetch, ok |-> ok, json |-> json, data |-> data]

LlmOutcomes ==
    {LlmOutcome("rejects", FALSE, "none", JsonNull)}
        \cup {LlmOutcome("responds", FALSE, "parses", JsonObject(Absent))}
        \cup {LlmOutcome("responds", TRUE, "rejects", JsonNull)}
        \cup {LlmOutcome("responds", TRUE, "parses", d) : d \in JsonData}

\* data.choices?.[0]?.message?.content: an optional string.  Reading choices
\* of null throws.
ContentOf(data) ==
    IF data.choices = Absent \/ data.choices[1] = <<>> THEN Absent
    ELSE IF data.choices[1][1].message = Absent THEN Absent
    ELSE data.choices[1][1].message[1].content

\* The rest of the try block once fetch has settled as <outcome>.
AfterFetch(outcome) ==
    IF outcome.fetch = "rejects" THEN askCatch("fetch")
    ELSE IF ~outcome.ok THEN askCatch("API error")
    ELSE IF outcome.json = "rejects" THEN askCatch("json")
    ELSE IF outcome.data.isNull THEN askCatch("TypeError")
    ELSE IF ContentOf(outcome.data) = Absent \/ ContentOf(outcome.data) = Present("")
         THEN Fulfilled(DECLINE_ANSWER)
    ELSE Fulfilled(ContentOf(outcome.data)[1])

\* sortedTerms.slice(0, 5): the terms that are looked up.
\* Mutation of SearchedTerms: every term is looked up.
SearchedTermsUncapped(sorted) == sorted

SearchedTerms(sorted) ==
    SubSeq(sorted, 1, IF Len(sorted) < SearchCap THEN Len(sorted) ELSE SearchCap)

\* deepSearch(term, thorough): the call as the search collaborator sees it.
deepSearch(term, thorough) == [term |-> term, thorough |-> thorough]

\* askAI is called: up to the first await.
AskStart ==
    /\ askPc = "start"
    /\ IF ~hasKey
       THEN /\ askResult' = Fulfilled(NO_KEY_ANSWER)
            /\ askPc' = "done"
            /\ UNCHANGED <<extractedTerms, sortedTerms, deepSearchCalls, lookups, llmRequest>>
       ELSE IF trim(question) = <<>>
       THEN /\ askResult' = Fulfilled(NO_QUESTION_ANSWER)
            /\ askPc' = "done"
            /\ UNCHANGED <<extractedTerms, sortedTerms, deepSearchCalls, lookups, llmRequest>>
       ELSE \E searchTerms \in TermLists :
            /\ extractedTerms' = searchTerms
            /\ sortedTerms' = SortDescBy(searchTerms, TermLength)
            /\ IF Len(searchTerms) > 0
               THEN /\ deepSearchCalls' = [i \in 1..Len(SearchedTerms(sortedTerms')) |->
                                             deepSearch(SearchedTerms(sortedTerms')[i], TRUE)]
                    /\ lookups' = [i \in 1..Len(SearchedTerms(sortedTerms')) |-> PendingPromise]
                    /\ askPc' = "searching"
                    /\ UNCHANGED llmRequest
               ELSE /\ deepSearchCalls' = <<>>
                    /\ lookups' = <<>>
                    /\ askPc' = "fetching"
                    /\ llmRequest' = Present([question |-> question, searchResults |-> Absent])
            /\ UNCHANGED askResult
    /\ UNCHANGED <<hasKey, question, completionOrder, searchResults, llmResponse>>
    /\ UNCHANGED exceptAsk

\* deepSearch(term, true) of lookup i resolves.
SearchResolves(i, shape) ==
    /\ askPc = "searching"
    /\ lookups[i] = PendingPromise
    /\ lookups' = [lookups EXCEPT ![i] = Fulfilled(Present(DeepSearchResultOf(shape, sortedTerms[i])))]
    /\ completionOrder' = Append(completionOrder, i)
    /\ UNCHANGED <<hasKey, question, askPc, extractedTerms, sortedTerms, deepSearchCalls,
                   searchResults, llmRequest, llmResponse, askResult>>
    /\ UNCHANGED exceptAsk

\* deepSearch(term, true) of lookup i rejects.
SearchRejects(i) ==
    /\ askPc = "searching"
    /\ lookups[i] = PendingPromise
    /\ lookups' = [lookups EXCEPT ![i] = searchCatch(sortedTerms[i])]
    /\ completionOrder' = Append(completionOrder, i)
    /\ UNCHANGED <<hasKey, question, askPc, extractedTerms, sortedTerms, deepSearchCalls,
                   searchResults, llmRequest, llmResponse, askResult>>
    /\ UNCHANGED exceptAsk

\* Promise.all settles: it rejects as soon as one promise has rejected, and is
\* fulfilled once all are.  Then the merge, and the fetch is issued.
AwaitSearches ==
    /\ askPc = "searching"
    /\ \/ \E i \in 1..Len(lookups) : lookups[i] = Rejected
       \/ \A i \in 1..Len(lookups) : lookups[i].state = "fulfilled"
    /\ IF \E i \in 1..Len(lookups) : lookups[i] = Rejected
       THEN /\ askResult' = askCatch("search")
            /\ askPc' = "done"
            /\ UNCHANGED <<searchResults, llmRequest>>
       ELSE LET results == PromiseAll(lookups, completionOrder)
                allResults == FilterNotNull(results, 1)
                merged == IF Len(allResults) > 0
                          THEN Present(MergeResults(allResults, sortedTerms[1]))
                          ELSE Absent
            IN  /\ searchResults' = merged
                /\ llmRequest' = Present([question |-> question, searchResults |-> merged])
                /\ askPc' = "fetching"
                /\ UNCHANGED askResult
    /\ UNCHANGED <<hasKey, question, extractedTerms, sortedTerms, deepSearchCalls, lookups,
                   completionOrder, llmResponse>>
    /\ UNCHANGED exceptAsk

\* The fetch settles and askAI runs to its end.
LlmSettles(outcome) ==
    /\ askPc = "fetching"
    /\ llmResponse' = Present(outcome)
    /\ askResult' = AfterFetch(outcome)
    /\ askPc' = "done"
    /\ UNCHANGED <<hasKey, question, extractedTerms, sortedTerms, deepSearchCalls, lookups,
                   completionOrder, searchResults, llmRequest>>
    /\ UNCHANGED exceptAsk

(***************************************************************************)
(* Specification SpecAsk: one call of askAI, with or without the key, on   *)
(* any question, the lookups and the fetch settling in any order and way.  *)
(***************************************************************************)
InitAsk ==
    /\ \E key \in BOOLEAN, q \in Questions : AskNotCalled(key, q)
    /\ relationships = <<>>
    /\ AggIdle
    /\ NoDocument
    /\ NoChat
    /\ NoEarth
    /\ NoForceLayout
    /\ AppConstructed
    /\ SidebarProps
    /\ NoAnimation
    /\ DebounceIdle
    /\ NothingSelected

NextAsk ==
    \/ AskStart
    \/ \E i \in 1..Len(lookups), shape \in SearchShapes : SearchResolves(i, shape)
    \/ \E i \in 1..Len(lookups) : SearchRejects(i)
    \/ AwaitSearches
    \/ \E outcome \in LlmOutcomes : LlmSettles(outcome)

SpecAsk == InitAsk /\ [][NextAsk]_vars

\* The language model call gave an answer: a response with an OK status whose
\* body parses to an object with a non-empty choices[0].message.content.
LlmAnswered(outcome) ==
    /\ outcome.fetch = "responds"
    /\ outcome.ok
    /\ outcome.json = "parses"
    /\ ~outcome.data.isNull
    /\ \E content \in {"He was a client."} :
          outcome.data = JsonObject(Present(<<Choice(Present(Message(Present(content))))>>))

\* C8: askAI never throws or rejects.  The promise it returns is never
\* rejected and is fulfilled when the call is over; and when the language
\* model call failed (fetch rejected, status not OK, body not JSON, body null,
\* no choices, no message, no or empty content) it is fulfilled with one of the
\* two fixed placeholder strings.
C8_AskNeverRejects ==
    /\ askResult.state # "rejected"
    /\ askPc = "done" => askResult.state = "fulfilled"
    /\ (askPc = "done" /\ llmResponse # Absent /\ ~LlmAnswered(llmResponse[1])) =>
          askResult.value \in {Present(FIFTH_ANSWER), Present(DECLINE_ANSWER)}
    /\ (askPc = "done" /\ llmResponse # Absent /\ llmResponse[1].fetch = "rejects") =>
          askResult.value = Present(FIFTH_ANSWER)

\* The fetch was issued with a merged search context and rejected; askAI
\* resolved to the placeholder.
C8_Witness ==
    /\ askPc = "done"
    /\ searchResults # Absent
    /\ llmResponse # Absent
    /\ llmResponse[1].fetch = "rejects"
    /\ askResult = Fulfilled(FIFTH_ANSWER)

\* Lookup i has settled with a result / without one.
LookupSucceeded(i) ==
    /\ lookups[i].state = "fulfilled"
    /\ lookups[i].value # Absent
    /\ lookups[i].value[1] # Absent

LookupFailed(i) == lookups[i].state # "pending" /\ ~LookupSucceeded(i)

ResultOf(i) == lookups[i].value[1][1]

EventsOfLookup(i) == ResultOf(i).events

DocumentsOfLookup(i) == ResultOf(i).documents

ActorsOfLookup(i) == ResultOf(i).actors

ExcerptsOfLookup(i) == IF ResultOf(i).excerpts = Absent THEN <<>> ELSE ResultOf(i).excerpts[1]

ExcerptIdentity(excerpt) == <<excerpt.doc_id, slice(excerpt.context, ExcerptKeyChars)>>

\* The items of the succeeded lookups, by position <<lookup, index>>.
Positions(ItemsOfLookup(_)) ==
    UNION {{<<i, j>> : j \in 1..Len(ItemsOfLookup(i))} :
            i \in {l \in 1..Len(lookups) : LookupSucceeded(l)}}

Before(p, q) == p[1] < q[1] \/ (p[1] = q[1] /\ p[2] < q[2])

\* <list> is the items of the succeeded lookups in issue order, each key kept
\* at its first position only.
FirstSeenInIssueOrder(list, ItemsOfLookup(_), Key(_)) ==
    LET all == Positions(ItemsOfLookup)
        item(p) == ItemsOfLookup(p[1])[p[2]]
        kept == {p \in all : \A q \in all : Before(q, p) => Key(item(q)) # Key(item(p))}
        rank(p) == Cardinality({q \in kept : Before(q, p)}) + 1
    IN  /\ Len(list) = Cardinality(kept)
        /\ \A p \in kept : list[rank(p)] = item(p)

\* C9: the merge starts only after every issued lookup has settled, and the
\* merged events, documents, actors and excerpts are the items of the
\* succeeded lookups taken in the order the terms were issued, first seen
\* wins: nothing in them depends on the order the lookups completed in.
C9_MergeAfterAllInIssueOrder ==
    /\ (searchResults # Absent \/ llmRequest # Absent) =>
          \A i \in 1..Len(lookups) : lookups[i].state # "pending"
    /\ (askPc \in {"fetching", "done"} /\ \E i \in 1..Len(lookups) : LookupSucceeded(i)) =>
          /\ searchResults # Absent
          /\ FirstSeenInIssueOrder(searchResults[1].events, EventsOfLookup, EventKey)
          /\ FirstSeenInIssueOrder(searchResults[1].documents, DocumentsOfLookup, DocumentKey)
          /\ FirstSeenInIssueOrder(searchResults[1].actors, ActorsOfLookup, ActorKey)
          /\ FirstSeenInIssueOrder(searchResults[1].excerpts[1], ExcerptsOfLookup, ExcerptIdentity)

\* The second lookup completed before the first, both found event 1, and the
\* merged list holds the first lookup's.
C9_Witness ==
    /\ askPc = "fetching"
    /\ completionOrder = <<2, 1>>
    /\ LookupSucceeded(1) /\ LookupSucceeded(2)
    /\ \E j \in 1..Len(EventsOfLookup(2)) : EventsOfLookup(2)[j].id = EventsOfLookup(1)[1].id
    /\ searchResults[1].events[1] = EventsOfLookup(1)[1]
    /\ searchResults[1].events[1].term = sortedTerms[1]
    /\ Len(searchResults[1].events) = 2

\* C10: once the lookups are over and some of them failed, the merged result
\* holds what the succeeded lookups found and only that (nothing at all if
\* none succeeded), the language model request has been made with it, and
\* the answer of the language model, when it gives one, is what askAI
\* resolves to.
C10_FailedLookupsDropped ==
    (askPc \in {"fetching", "done"} /\ \E i \in 1..Len(lookups) : LookupFailed(i)) =>
        /\ llmRequest # Absent
        /\ llmRequest[1].searchResults = searchResults
        /\ (\A i \in 1..Len(lookups) : LookupFailed(i)) => searchResults = Absent
        /\ \A i \in 1..Len(lookups) : LookupSucceeded(i) =>
              /\ searchResults # Absent
              /\ \A j \in 1..Len(EventsOfLookup(i)) :
                    \E k \in 1..Len(searchResults[1].events) :
                        searchResults[1].events[k].id = EventsOfLookup(i)[j].id
              /\ \A j \in 1..Len(DocumentsOfLookup(i)) :
                    \E k \in 1..Len(searchResults[1].documents) :
                        searchResults[1].documents[k].doc_id = DocumentsOfLookup(i)[j].doc_id
              /\ \A j \in 1..Len(ActorsOfLookup(i)) :
                    \E k \in 1..Len(searchResults[1].actors) :
                        searchResults[1].actors[k].name = ActorsOfLookup(i)[j].name
              /\ \A j \in 1..Len(ExcerptsOfLookup(i)) :
                    \E k \in 1..Len(searchResults[1].excerpts[1]) :
                        ExcerptIdentity(searchResults[1].excerpts[1][k])
                            = ExcerptIdentity(ExcerptsOfLookup(i)[j])
        /\ searchResults # Absent =>
              /\ \A k \in 1..Len(searchResults[1].events) :
                    \E i \in 1..Len(lookups) : LookupSucceeded(i) /\
                        \E j \in 1..Len(EventsOfLookup(i)) :
                            searchResults[1].events[k] = EventsOfLookup(i)[j]
              /\ \A k \in 1..Len(searchResults[1].excerpts[1]) :
                    \E i \in 1..Len(lookups) : LookupSucceeded(i) /\
                        \E j \in 1..Len(ExcerptsOfLookup(i)) :
                            searchResults[1].excerpts[1][k] = ExcerptsOfLookup(i)[j]
        /\ (askPc = "done" /\ LlmAnswered(llmResponse[1])) =>
              /\ askResult.state = "fulfilled"
              /\ askResult.value \notin {Present(FIFTH_ANSWER), Present(DECLINE_ANSWER)}

\* The lookup of the first term failed, the second found something, and the
\* language model answered from it.
C10_Witness ==
    /\ askPc = "done"
    /\ Len(lookups) = 2
    /\ LookupFailed(1)
    /\ LookupSucceeded(2)
    /\ searchResults # Absent
    /\ searchResults[1].events = EventsOfLookup(2)
    /\ llmRequest[1].searchResults = searchResults
    /\ LlmAnswered(llmResponse[1])
    /\ askResult = Fulfilled("He was a client.")

\* Position of a term in what extractSearchTerms returned.
ExtractionIndex(term) == CHOOSE i \in 1..Len(extractedTerms) : extractedTerms[i] = term

\* Term t ranks before term u: it is longer, or as long and extracted earlier.
RanksBefore(t, u) ==
    \/ Len(t) > Len(u)
    \/ (Len(t) = Len(u) /\ ExtractionIndex(t) < ExtractionIndex(u))

\* The call got past its two early returns.
TermsExtracted == askPc \in {"searching", "fetching", "done"} /\ hasKey /\ trim(question) # <<>>

\* C21: with k distinct terms extracted, askAI calls deepSearch exactly
\* min(k, cap) times, each time in thorough mode, for the terms that rank
\* first by length (equal lengths in extraction order), in that rank order;
\* with no term extracted, and on the two early returns, it never calls it.
C21_LongestTermsLookedUp ==
    /\ ~TermsExtracted => deepSearchCalls = <<>>
    /\ TermsExtracted =>
          /\ Len(deepSearchCalls) =
                (IF Len(extractedTerms) < SearchCap THEN Len(extractedTerms) ELSE SearchCap)
          /\ \A i \in 1..Len(deepSearchCalls) :
                /\ deepSearchCalls[i].thorough = TRUE
                /\ \E e \in 1..Len(extractedTerms) : extractedTerms[e] = deepSearchCalls[i].term
          /\ \A i, j \in 1..Len(deepSearchCalls) :
                i < j => RanksBefore(deepSearchCalls[i].term, deepSearchCalls[j].term)
          /\ \A e \in 1..Len(extractedTerms) :
                (\A i \in 1..Len(deepSearchCalls) : deepSearchCalls[i].term # extractedTerms[e]) =>
                    \A i \in 1..Len(deepSearchCalls) :
                        RanksBefore(deepSearchCalls[i].term, extractedTerms[e])
          /\ Len(lookups) = Len(deepSearchCalls)

\* More terms were extracted than are looked up, the longest was extracted
\* last and two shorter ones tie: the longest is looked up first, then the
\* earlier of the two, and the later one is not looked up.
C21_Witness ==
    /\ TermsExtracted
    /\ Len(extractedTerms) > SearchCap
    /\ Len(deepSearchCalls) = SearchCap
    /\ \E e \in 1..Len(extractedTerms) :
          /\ \A i \in 1..Len(deepSearchCalls) : deepSearchCalls[i].term # extractedTerms[e]
          /\ Len(extractedTerms[e]) = Len(deepSearchCalls[Len(deepSearchCalls)].term)
    /\ deepSearchCalls[1].term = extractedTerms[Len(extractedTerms)]
    /\ Len(deepSearchCalls[1].term) > Len(extractedTerms[1])

\* No two elements of <list> have the same Key.
PairwiseDistinct(list, Key(_)) ==
    \A i, j \in 1..Len(list) : Key(list[i]) = Key(list[j]) => i = j

\* Every item of a succeeded lookup has an element of <list> with its Key.
AllRepresented(list, ItemsOfLookup(_), Key(_)) ==
    \A p \in Positions(ItemsOfLookup) :
        \E k \in 1..Len(list) : Key(list[k]) = Key(ItemsOfLookup(p[1])[p[2]])

\* Every element of <list> is the first item with its Key, in issue order,
\* among the items of the succeeded lookups.
EachIsFirstOccurrence(list, ItemsOfLookup(_), Key(_)) ==
    \A k \in 1..Len(list) :
        \E p \in Positions(ItemsOfLookup) :
            /\ list[k] = ItemsOfLookup(p[1])[p[2]]
            /\ \A q \in Positions(ItemsOfLookup) :
                  Before(q, p) => Key(ItemsOfLookup(q[1])[q[2]]) # Key(list[k])

EventListCap == 100

\* Rows of the search overlay, slice(0, 8).
SearchResultCap == 8

SearchQueries == {<<"A">>, <<"b">>}

\* The parent's onNodeClick: the clicked entity becomes the selected one; the
\* close button of the panel hands it the selected entity to deselect it.
onNodeClick(id) == IF selectedNode = id THEN Null ELSE id

\* The actorRelationships prop: the records of the selected entity.
actorRelationships ==
    SelectSeq(relationships, LAMBDA rel : rel.actor = selectedNode \/ rel.target = selectedNode)

\* NetworkView.searchResults
RECURSIVE FilterNodes(_, _, _)
FilterNodes(nodes, q, i) ==
    IF i > Len(nodes) THEN <<>>
    ELSE (IF includes(toLowerCase(nodes[i].id), q) THEN <<nodes[i]>> ELSE <<>>)
            \o FilterNodes(nodes, q, i + 1)

networkSearchResults ==
    IF trim(searchQuery) = <<>> THEN <<>>
    ELSE SliceTo(FilterNodes(derived.graphData.nodes, toLowerCase(searchQuery), 1),
                 SearchResultCap)

\* GlobeView.selectedLocation, optional
selectedLocation ==
    IF ~Truthy(selectedLocationName) THEN Absent
    ELSE IF selectedLocationName = UNKNOWN_NAME
         THEN derived.locationData.unknownLocationData
    ELSE LET locs == derived.locationData.locationData
             at == IndexWhere(locs, LAMBDA l : l.name = selectedLocationName)
         IN  IF at = 0 THEN Absent ELSE Present(locs[at])

\* Names the globe markers and the location list offer.
ClickableLocations ==
    LET data == derived.locationData
    IN  {data.locationData[i].name : i \in 1..Len(data.locationData)}
            \cup {data.unknownLocationData[i].name : i \in 1..Len(data.unknownLocationData)}

\* The entities drawn as nodes of the graph.
GraphNodeIds ==
    LET nodes == derived.graphData.nodes
    IN  {nodes[i].id : i \in 1..Len(nodes)}

\* Click on a node of the graph.
NodeClick(id) ==
    /\ ~showSearch
    /\ id \in GraphNodeIds
    /\ selectedNode' = onNodeClick(id)
    /\ nvSelectedEvent' = Absent
    /\ lastUiEvent' = "nodeClick"
    /\ UNCHANGED <<showSearch, searchQuery, selectedLocationName, selectedEvent>>
    /\ UNCHANGED <<aggVars, exceptSelect>>

\* The search button of the header, and a click on the overlay.
OpenSearch ==
    /\ ~showSearch
    /\ showSearch' = TRUE
    /\ lastUiEvent' = "other"
    /\ UNCHANGED <<selectedNode, nvSelectedEvent, searchQuery, selectedLocationName,
                   selectedEvent>>
    /\ UNCHANGED <<aggVars, exceptSelect>>

CloseSearch ==
    /\ showSearch
    /\ showSearch' = FALSE
    /\ lastUiEvent' = "other"
    /\ UNCHANGED <<selectedNode, nvSelectedEvent, searchQuery, selectedLocationName,
                   selectedEvent>>
    /\ UNCHANGED <<aggVars, exceptSelect>>

\* Typing in the search input.
SearchInput(q) ==
    /\ showSearch
    /\ searchQuery' = q
    /\ lastUiEvent' = "other"
    /\ UNCHANGED <<selectedNode, nvSelectedEvent, showSearch, selectedLocationName,
                   selectedEvent>>
    /\ UNCHANGED <<aggVars, exceptSelect>>

\* Click on a row of the search overlay.
SearchResultClick(id) ==
    /\ showSearch
    /\ LET results == networkSearchResults
       IN  \E i \in 1..Len(results) : results[i].id = id
    /\ selectedNode' = onNodeClick(id)
    /\ showSearch' = FALSE
    /\ searchQuery' = <<>>
    /\ lastUiEvent' = "searchResultClick"
    /\ UNCHANGED <<nvSelectedEvent, selectedLocationName, selectedEvent>>
    /\ UNCHANGED <<aggVars, exceptSelect>>

\* Click on a row of the entity panel's event list.
NetworkEventClick(rel) ==
    /\ ~showSearch
    /\ Truthy(selectedNode)
    /\ nvSelectedEvent = Absent
    /\ LET rows == SliceTo(actorRelationships, EventListCap)
       IN  \E i \in 1..Len(rows) : rows[i] = rel
    /\ nvSelectedEvent' = Present(rel)
    /\ lastUiEvent' = "other"
    /\ UNCHANGED <<selectedNode, showSearch, searchQuery, selectedLocationName,
                   selectedEvent>>
    /\ UNCHANGED <<aggVars, exceptSelect>>

\* The Back button of the event detail.
NetworkEventBack ==
    /\ ~showSearch
    /\ Truthy(selectedNode)
    /\ nvSelectedEvent # Absent
    /\ nvSelectedEvent' = Absent
    /\ lastUiEvent' = "other"
    /\ UNCHANGED <<selectedNode, showSearch, searchQuery, selectedLocationName,
                   selectedEvent>>
    /\ UNCHANGED <<aggVars, exceptSelect>>

\* The close button of the entity panel.
NetworkPanelClose ==
    /\ ~showSearch
    /\ Truthy(selectedNode)
    /\ nvSelectedEvent = Absent
    /\ selectedNode' = onNodeClick(selectedNode)
    /\ lastUiEvent' = "other"
    /\ UNCHANGED <<nvSelectedEvent, showSearch, searchQuery, selectedLocationName,
                   selectedEvent>>
    /\ UNCHANGED <<aggVars, exceptSelect>>

\* GlobeView.handleLocationClick(name): a marker of the globe or a row of the
\* location list.
handleLocationClick(name) ==
    /\ name \in ClickableLocations
    /\ selectedLocationName' = name
    /\ selectedEvent' = Absent
    /\ lastUiEvent' = "locationClick"
    /\ UNCHANGED <<selectedNode, nvSelectedEvent, showSearch, searchQuery>>
    /\ UNCHANGED <<aggVars, exceptSelect>>

\* Click on a row of the location panel's event list.
GlobeEventClick(event) ==
    /\ selectedEvent = Absent
    /\ LET location == selectedLocation
       IN  /\ location # Absent
           /\ LET rows == SliceTo(location[1].events, EventListCap)
               IN  \E i \in 1..Len(rows) : rows[i] = event
    /\ selectedEvent' = Present(event)
    /\ lastUiEvent' = "other"
    /\ UNCHANGED <<selectedNode, nvSelectedEvent, showSearch, searchQuery,
                   selectedLocationName>>
    /\ UNCHANGED <<aggVars, exceptSelect>>

\* The Back button of the location panel's event detail.
GlobeEventBack ==
    /\ selectedEvent # Absent
    /\ selectedLocation # Absent
    /\ selectedEvent' = Absent
    /\ lastUiEvent' = "other"
    /\ UNCHANGED <<selectedNode, nvSelectedEvent, showSearch, searchQuery,
                   selectedLocationName>>
    /\ UNCHANGED <<aggVars, exceptSelect>>

\* Mutation of GlobePanelClose: the button is offered in the event detail too.
GlobePanelCloseAnywhere ==
    /\ selectedLocation # Absent
    /\ selectedLocationName' = Null
    /\ lastUiEvent' = "other"
    /\ UNCHANGED <<selectedNode, nvSelectedEvent, showSearch, searchQuery, selectedEvent>>
    /\ UNCHANGED <<aggVars, exceptSelect>>

\* The close button of the location panel, which the location detail shows.
GlobePanelClose ==
    /\ selectedEvent = Absent
    /\ selectedLocation # Absent
    /\ selectedLocationName' = Null
    /\ lastUiEvent' = "other"
    /\ UNCHANGED <<selectedNode, nvSelectedEvent, showSearch, searchQuery, selectedEvent>>
    /\ UNCHANGED <<aggVars, exceptSelect>>

(***************************************************************************)
(* Specification SpecSelect: any clicks on a fixed list of records.        *)
(***************************************************************************)
SelectPayloads ==
    {p \in [actor : {NameA}, target : {NameB, NameC}, timestamp : {Null},
            location : {Null, <<"P","a","r","i","s">>}] :
        p.target = NameC => p.location = Null}

\* The views as rendered: the graphData memo of NetworkView and the
\* locationData memo of GlobeView hold the data of the relationships prop.
ViewsRendered ==
    /\ aggOp = "views"
    /\ derived = [graphData |-> graphData(relationships),
                  locationData |-> locationData(relationships)]

InitSelect ==
    /\ RelationshipsFrom(SelectPayloads)
    /\ ViewsRendered
    /\ NoDocument
    /\ NoChat
    /\ NoEarth
    /\ NoForceLayout
    /\ AppConstructed
    /\ SidebarProps
    /\ NoAnimation
    /\ DebounceIdle
    /\ AskIdle
    /\ NothingSelected

NextSelect ==
    \/ \E id \in GraphNodeIds : NodeClick(id)
    \/ OpenSearch
    \/ CloseSearch
    \/ \E q \in SearchQueries : SearchInput(q)
    \/ \E id \in {NameA, NameB, NameC} : SearchResultClick(id)
    \/ \E i \in 1..Len(relationships) : NetworkEventClick(relationships[i])
    \/ NetworkEventBack
    \/ NetworkPanelClose
    \/ \E name \in ClickableLocations : handleLocationClick(name)
    \/ \E i \in 1..Len(relationships) : GlobeEventClick(relationships[i])
    \/ GlobeEventBack
    \/ GlobePanelClose

SpecSelect == InitSelect /\ [][NextSelect]_vars

\* C11: a selection clears the dependent selection.  Right after a location
\* was selected (globe or list) GlobeView's selected event is null, and right
\* after an entity was selected (node click or search result) NetworkView's
\* selected event is null.
C11_SelectionClearsEvent ==
    /\ lastUiEvent = "locationClick" => selectedEvent = Absent
    /\ (lastUiEvent \in {"nodeClick", "searchResultClick"} /\ Truthy(selectedNode)) =>
          nvSelectedEvent = Absent

\* The part of C11 the code keeps: location clicks and node clicks.
SelectionClearsEventExceptSearch ==
    /\ lastUiEvent = "locationClick" => selectedEvent = Absent
    /\ lastUiEvent = "nodeClick" => nvSelectedEvent = Absent

\* What GlobeView's detail panel shows.
DetailPanel ==
    IF selectedLocation = Absent THEN "nothing"
    ELSE IF selectedEvent # Absent THEN "event"
    ELSE "location"

\* C27: in the globe view, under any sequence of location clicks, event
\* clicks, back and close, an event is selected only while a location is:
\* the detail panel shows nothing (and then no event is selected), or the
\* detail of the selected location, or the detail of an event listed for the
\* selected location.
C27_EventImpliesLocation ==
    /\ selectedEvent # Absent => Truthy(selectedLocationName)
    /\ DetailPanel = "nothing" => selectedEvent = Absent /\ ~Truthy(selectedLocationName)
    /\ DetailPanel = "event" =>
          \E i \in 1..Len(selectedLocation[1].events) :
              selectedLocation[1].events[i] = selectedEvent[1]
    /\ DetailPanel = "location" => selectedEvent = Absent

\* The detail of an event of the synthetic bucket is shown, the globe having
\* located buckets to click as well.
C27_Witness ==
    /\ DetailPanel = "event"
    /\ selectedLocationName = UNKNOWN_NAME
    /\ ~Truthy(selectedEvent[1].location)
    /\ \E i \in 1..Len(relationships) : Truthy(relationships[i].location)
    /\ lastUiEvent = "other"

(***************************************************************************)
(* GlobeView.tsx: animateBubbleView.  An animation is a chain of frame     *)
(* callbacks, each scheduling the next until its duration has elapsed.     *)
(* The clock counts display frames: a callback requested during one frame  *)
(* is run in a later one.                                                  *)
(***************************************************************************)

\* Most animations started in one behaviour.
MaxAnimations == 3

\* Last tick of the animation clock.
MaxAnimTime == 4

\* Durations of an animation, in ticks.
Durations == {1, 3}

\* cancelAnimationFrame(id): the callback with that id, if scheduled, is dropped.
\* Mutation of cancelAnimationFrame: the callback stays scheduled.
cancelAnimationFrameKeeps(scheduled, id) == scheduled

cancelAnimationFrame(scheduled, id) == [i \in DOMAIN scheduled \ {id} |-> scheduled[i]]

\* requestAnimationFrame(animate), animate being the callback of <animation>.
requestAnimationFrame(scheduled, animation) ==
    [i \in DOMAIN scheduled \cup {nextFrameId} |->
        IF i = nextFrameId
        THEN [animation |-> animation, requestedAt |-> animClock]
        ELSE scheduled[i]]

\* bubbleZoom as constructed and as the close handler sets it: 1, in hundredths.
ZoomOne == 100

\* targetZoom of the zoom-to-person effect: 2.8, in hundredths.
PersonZoom == 280

\* Where the zoom-to-person effect pans to: rect.width / 2 - node.x * targetZoom
\* and the same for y, for the one node of the map.
PersonPan == <<40, -20>>

\* The animations the bubble map's controls start: Reset View, and the
\* zoom-to-person effect.
ResetView == [targetZoom |-> ZoomOne, targetPan |-> <<0, 0>>, duration |-> Min(Durations)]

ZoomToPerson == [targetZoom |-> PersonZoom, targetPan |-> PersonPan, duration |-> Max(Durations)]

\* start + (target - start) * easeOut, easeOut = 1 - (1 - progress)^3 and
\* progress = Math.min(1, elapsed / duration), on hundredths.
EaseOut(start, target, elapsed, duration) ==
    LET e == IF elapsed > duration THEN duration ELSE elapsed
        left == duration - e
        cube(x) == x * x * x
    IN  start + ((target - start) * (cube(duration) - cube(left))) \div cube(duration)

\* animateBubbleView(targetZoom, targetPanX, targetPanY, duration)
animateBubbleView(targetZoom, targetPan, duration) ==
    /\ Len(animations) < MaxAnimations
    /\ frames' = requestAnimationFrame(
                    IF zoomAnimationRef # 0
                    THEN cancelAnimationFrame(frames, zoomAnimationRef)
                    ELSE frames,
                    Len(animations) + 1)
    /\ zoomAnimationRef' = nextFrameId
    /\ nextFrameId' = nextFrameId + 1
    /\ animations' = Append(animations,
                        [startTime |-> animClock, duration |-> duration,
                         startZoom |-> bubbleZoom, startPan |-> bubblePan,
                         targetZoom |-> targetZoom, targetPan |-> targetPan])
    /\ UNCHANGED <<animClock, staleWrite, bubbleZoom, bubblePan, animationsAtClose,
                   writeAfterClose>>
    /\ UNCHANGED exceptAnim

\* A control of the open bubble map starts an animation.
BubbleControl(call) ==
    /\ showBubbleMap
    /\ animateBubbleView(call.targetZoom, call.targetPan, call.duration)
    /\ UNCHANGED <<showBubbleMap, bubbleMapPerson>>

\* The bubble map is opened on the whole network.
OpenBubbleMap ==
    /\ ~showBubbleMap
    /\ showBubbleMap' = TRUE
    /\ bubbleMapPerson' = Null
    /\ UNCHANGED <<zoomAnimationRef, frames, nextFrameId, animations, animClock,
                   staleWrite, bubbleZoom, bubblePan, animationsAtClose, writeAfterClose>>
    /\ UNCHANGED exceptAnim

\* The bubble map is opened on a person of the selected event, and the
\* zoom-to-person effect animates to that person's node.
OpenBubbleMapAt(person) ==
    /\ ~showBubbleMap
    /\ showBubbleMap' = TRUE
    /\ bubbleMapPerson' = person
    /\ animateBubbleView(ZoomToPerson.targetZoom, ZoomToPerson.targetPan,
                         ZoomToPerson.duration)

\* Mutation of CloseBubbleMap: the scheduled frame is not cancelled.
CloseBubbleMapKeepsFrame ==
    /\ showBubbleMap
    /\ showBubbleMap' = FALSE
    /\ bubbleMapPerson' = Null
    /\ bubbleZoom' = ZoomOne
    /\ bubblePan' = <<0, 0>>
    /\ animationsAtClose' = Len(animations)
    /\ UNCHANGED <<frames, zoomAnimationRef, nextFrameId, animations, animClock, staleWrite,
                   writeAfterClose>>
    /\ UNCHANGED exceptAnim

\* The close button of the bubble map.
CloseBubbleMap ==
    /\ showBubbleMap
    /\ frames' = IF zoomAnimationRef # 0
                 THEN cancelAnimationFrame(frames, zoomAnimationRef)
                 ELSE frames
    /\ showBubbleMap' = FALSE
    /\ bubbleMapPerson' = Null
    /\ bubbleZoom' = ZoomOne
    /\ bubblePan' = <<0, 0>>
    /\ animationsAtClose' = Len(animations)
    /\ UNCHANGED <<zoomAnimationRef, nextFrameId, animations, animClock, staleWrite,
                   writeAfterClose>>
    /\ UNCHANGED exceptAnim

\* The browser runs the scheduled callback <id>: animate() of its animation
\* writes zoom and pan, and schedules itself again while progress < 1.
animate(id) ==
    /\ id \in DOMAIN frames
    /\ frames[id].requestedAt < animClock
    /\ LET animation == frames[id].animation
           a == animations[animation]
           elapsed == animClock - a.startTime
           progressBelowOne == elapsed < a.duration
           rest == [i \in DOMAIN frames \ {id} |-> frames[i]]
       IN  /\ staleWrite' = (staleWrite \/ animation # Len(animations))
           /\ writeAfterClose' = (writeAfterClose \/ animation <= animationsAtClose)
           /\ bubbleZoom' = EaseOut(a.startZoom, a.targetZoom, elapsed, a.duration)
           /\ bubblePan' = <<EaseOut(a.startPan[1], a.targetPan[1], elapsed, a.duration),
                             EaseOut(a.startPan[2], a.targetPan[2], elapsed, a.duration)>>
           /\ IF progressBelowOne
              THEN /\ frames' = requestAnimationFrame(rest, animation)
                   /\ zoomAnimationRef' = nextFrameId
                   /\ nextFrameId' = nextFrameId + 1
              ELSE /\ frames' = rest
                   /\ zoomAnimationRef' = 0
                   /\ UNCHANGED nextFrameId
    /\ UNCHANGED <<animations, animClock, showBubbleMap, bubbleMapPerson, animationsAtClose>>
    /\ UNCHANGED exceptAnim

\* Time passes.
AnimTick ==
    /\ animClock < MaxAnimTime
    /\ animClock' = animClock + 1
    /\ UNCHANGED <<zoomAnimationRef, frames, nextFrameId, animations, staleWrite,
                   showBubbleMap, bubbleMapPerson, bubbleZoom, bubblePan,
                   animationsAtClose, writeAfterClose>>
    /\ UNCHANGED exceptAnim

(***************************************************************************)
(* Specification SpecAnim: the bubble map opened and closed and its        *)
(* animations started at any time.  Wheel zoom and dragging, which write   *)
(* zoom and pan without animating, are left out.                           *)
(***************************************************************************)
InitAnim ==
    /\ relationships = <<>>
    /\ AggIdle
    /\ NoDocument
    /\ NoChat
    /\ NoEarth
    /\ NoForceLayout
    /\ AppConstructed
    /\ SidebarProps
    /\ DebounceIdle
    /\ AskIdle
    /\ NothingSelected
    /\ NoAnimation

NextAnim ==
    \/ OpenBubbleMap
    \/ OpenBubbleMapAt(NameA)
    \/ \E call \in {ResetView, ZoomToPerson} : BubbleControl(call)
    \/ \E id \in DOMAIN frames : animate(id)
    \/ AnimTick
    \/ CloseBubbleMap

SpecAnim == InitAnim /\ [][NextAnim]_vars

\* C12: at most one animation continuation is scheduled at any time, it
\* belongs to the animation started last and zoomAnimationRef holds its id;
\* zoom and pan are never written by an animation that a later one replaced.
C12_OneAnimation ==
    /\ Cardinality(DOMAIN frames) <= 1
    /\ \A id \in DOMAIN frames :
          /\ frames[id].animation = Len(animations)
          /\ zoomAnimationRef = id
    /\ ~staleWrite

\* A third animation was started while the second was in flight, the second
\* having replaced the first in flight, and has written zoom and pan.
C12_Witness ==
    /\ Len(animations) = 3
    /\ animations[2].startTime < animations[1].startTime + animations[1].duration
    /\ animations[3].startTime < animations[2].startTime + animations[2].duration
    /\ nextFrameId > 4
    /\ DOMAIN frames = {zoomAnimationRef}


\* No animation was started since the bubble map was last closed.
NoAnimationSinceClose == Len(animations) = animationsAtClose

\* C25: closing the bubble map releases its animation.  A frame scheduled
\* when the map is closed is cancelled: after the close, and until a new
\* animation is started, no frame is scheduled, zoom is 1 and pan is (0, 0);
\* the selected person is null while the map is closed; and no animation
\* started before a close ever writes zoom or pan after it.
C25_CloseReleasesAnimation ==
    /\ NoAnimationSinceClose =>
          /\ frames = <<>>
          /\ bubbleZoom = ZoomOne
          /\ bubblePan = <<0, 0>>
    /\ ~showBubbleMap => bubbleMapPerson = Null
    /\ \A id \in DOMAIN frames : frames[id].animation > animationsAtClose
    /\ ~writeAfterClose

\* The map was closed while the zoom-to-person animation was in flight and
\* had moved zoom and pan: its frame is gone though the ref still holds its
\* id, time has passed beyond the animation's end, and zoom and pan are still
\* as the close handler left them.
C25_Witness ==
    /\ ~showBubbleMap
    /\ animationsAtClose = 1
    /\ NoAnimationSinceClose
    /\ zoomAnimationRef # 0
    /\ frames = <<>>
    /\ nextFrameId > 2
    /\ animClock > animations[Len(animations)].startTime + animations[Len(animations)].duration
    /\ bubbleZoom = ZoomOne
    /\ bubblePan = <<0, 0>>
    /\ bubbleMapPerson = Null


(***************************************************************************)
(* Sidebar teardown.  The cleanup of the effect with no dependencies runs  *)
(* when the Sidebar is unmounted; the timeouts it leaves set still run.    *)
(***************************************************************************)

\* The cleanup function of Sidebar's last effect.
Unmount ==
    /\ sidebarMounted
    /\ sidebarMounted' = FALSE
    /\ timers' = ClearExisting(limitDebounceTimerRef)
    /\ callsAtUnmount' = [onYearRangeChange |-> Len(calls.onYearRangeChange),
                          onLimitChange |-> Len(calls.onLimitChange)]
    /\ UNCHANGED <<localYearRange, localLimit, mobileLocalLimit, debounceTimerRef,
                   limitDebounceTimerRef, mobileDebounceTimerRef, nextTimerId, now,
                   changes, calls>>
    /\ UNCHANGED <<yearRange, yearRangeSynced, rejected, localKeywords>>
    /\ UNCHANGED exceptSidebarDebounce

(***************************************************************************)
(* Specification SpecUnmount: the Sidebar's sliders moved at any times,    *)
(* and the Sidebar unmounted at any time.  An unmounted Sidebar has no     *)
(* sliders to move.                                                        *)
(***************************************************************************)
InitUnmount ==
    /\ DebounceMounted(<<MinYear, MaxYear>>, 100, 500)
    /\ relationships = <<>>
    /\ AggIdle
    /\ NoDocument
    /\ NoChat
    /\ NoEarth
    /\ NoForceLayout
    /\ AppConstructed
    /\ SidebarProps
    /\ NoAnimation
    /\ AskIdle
    /\ NothingSelected

NextUnmount ==
    \/ sidebarMounted /\ \E newMax \in Years : MaxYearSliderChange(newMax)
    \/ sidebarMounted /\ \E newMin \in Years : MinYearSliderChange(newMin)
    \/ sidebarMounted /\ \E newLimit \in SidebarLimits : handleLimitChange(newLimit)
    \/ \E id \in DOMAIN timers : TimerFire(id)
    \/ Tick
    \/ Unmount

SpecUnmount == InitUnmount /\ [][NextUnmount]_vars

\* C13: when the Sidebar is torn down every pending debounce timer it owns is
\* cancelled: once it is unmounted no timeout of it is set, and neither
\* onYearRangeChange nor onLimitChange is invoked again.
C13_UnmountCancelsTimers ==
    ~sidebarMounted =>
        /\ DOMAIN timers = {}
        /\ Len(calls.onYearRangeChange) = callsAtUnmount.onYearRangeChange
        /\ Len(calls.onLimitChange) = callsAtUnmount.onLimitChange

\* What the cleanup does achieve: the limit timeout is cancelled, and
\* onLimitChange is not invoked after the unmount.
UnmountCancelsLimitTimer ==
    ~sidebarMounted =>
        /\ \A id \in DOMAIN timers : timers[id].callback # "onLimitChange"
        /\ Len(calls.onLimitChange) = callsAtUnmount.onLimitChange

\* A limit change was pending at the unmount and was not delivered.
UnmountWithPendingLimit ==
    /\ ~sidebarMounted
    /\ Len(changes.onLimitChange) > 0
    /\ Delivered("onLimitChange", Len(changes.onLimitChange)) = 0
    /\ now >= changes.onLimitChange[Len(changes.onLimitChange)].at + DebounceDelay


(***************************************************************************)
(* The keyword, max-hops and density filters of the Sidebar.  changes and  *)
(* calls are keyed by the three callbacks of these filters.                *)
(***************************************************************************)
FilterCallbacks == {"onKeywordsChange", "onMaxHopsChange", "onMinDensityChange"}

\* Values of the keyword input and of the two sliders (the hop slider runs
\* from 1 to 6, the density slider from 0 to 100 in steps of 10).
KeywordInputs == {<<"a">>, <<"a", "b">>}

HopSliderValues == {1, 6}

DensitySliderValues == {0, 10}

FilterEvents ==
    Len(changes.onKeywordsChange) + Len(calls.onKeywordsChange)
        + Len(changes.onMaxHopsChange) + Len(changes.onMinDensityChange)

\* callback(value), called by the handler itself.
CallNow(callback, value) ==
    [calls EXCEPT ![callback] =
        Append(@, [value |-> value, change |-> Len(changes'[callback])])]

\* onChange of the keyword input: setLocalKeywords(e.target.value)
KeywordInputChange(text) ==
    /\ FilterEvents < MaxChanges
    /\ localKeywords' = text
    /\ changes' = RecordChange("onKeywordsChange", text)
    /\ UNCHANGED <<localYearRange, localLimit, mobileLocalLimit, debounceTimerRef,
                   limitDebounceTimerRef, mobileDebounceTimerRef, timers,
                   nextTimerId, now, calls>>
    /\ UNCHANGED <<sidebarMounted, callsAtUnmount, yearRange, yearRangeSynced, rejected>>
    /\ UNCHANGED exceptSidebarDebounce

\* Sidebar.handleKeywordSubmit
handleKeywordSubmit ==
    /\ FilterEvents < MaxChanges
    /\ changes' = changes
    /\ calls' = CallNow("onKeywordsChange", localKeywords)
    /\ UNCHANGED <<localYearRange, localLimit, mobileLocalLimit, debounceTimerRef,
                   limitDebounceTimerRef, mobileDebounceTimerRef, timers,
                   nextTimerId, now>>
    /\ UNCHANGED sidebarVars
    /\ UNCHANGED exceptSidebarDebounce

\* onChange of the hop distance slider; 6 stands for any distance (null).
HopSliderChange(value) ==
    /\ FilterEvents < MaxChanges
    /\ LET maxHops == IF value = 6 THEN Absent ELSE Present(value)
       IN  /\ changes' = RecordChange("onMaxHopsChange", maxHops)
           /\ calls' = CallNow("onMaxHopsChange", maxHops)
    /\ UNCHANGED <<localYearRange, localLimit, mobileLocalLimit, debounceTimerRef,
                   limitDebounceTimerRef, mobileDebounceTimerRef, timers,
                   nextTimerId, now>>
    /\ UNCHANGED sidebarVars
    /\ UNCHANGED exceptSidebarDebounce

\* onChange of the network density slider
DensitySliderChange(value) ==
    /\ FilterEvents < MaxChanges
    /\ changes' = RecordChange("onMinDensityChange", value)
    /\ calls' = CallNow("onMinDensityChange", value)
    /\ UNCHANGED <<localYearRange, localLimit, mobileLocalLimit, debounceTimerRef,
                   limitDebounceTimerRef, mobileDebounceTimerRef, timers,
                   nextTimerId, now>>
    /\ UNCHANGED sidebarVars
    /\ UNCHANGED exceptSidebarDebounce

(***************************************************************************)
(* Specification SpecFilters: the keyword typed and submitted and the two  *)
(* sliders moved at any times.                                             *)
(***************************************************************************)
InitFilters ==
    /\ localYearRange = <<MinYear, MaxYear>>
    /\ localLimit = 100
    /\ mobileLocalLimit = 500
    /\ debounceTimerRef = 0
    /\ limitDebounceTimerRef = 0
    /\ mobileDebounceTimerRef = 0
    /\ timers = <<>>
    /\ nextTimerId = 1
    /\ now = 0
    /\ changes = [c \in FilterCallbacks |-> <<>>]
    /\ calls = [c \in FilterCallbacks |-> <<>>]
    /\ relationships = <<>>
    /\ AggIdle
    /\ NoDocument
    /\ NoChat
    /\ NoEarth
    /\ NoForceLayout
    /\ AppConstructed
    /\ SidebarProps
    /\ NoAnimation
    /\ AskIdle
    /\ NothingSelected

NextFilters ==
    \/ \E text \in KeywordInputs : KeywordInputChange(text)
    \/ handleKeywordSubmit
    \/ \E value \in HopSliderValues : HopSliderChange(value)
    \/ \E value \in DensitySliderValues : DensitySliderChange(value)
    \/ Tick

SpecFilters == InitFilters /\ [][NextFilters]_vars

\* C14: a change to the keyword, max-hop or minimum-density filter is
\* debounced: it is delivered (onKeywordsChange, onMaxHopsChange,
\* onMinDensityChange) only when the 2-second delay has passed since the
\* change, and not when another change to the field followed within the delay.
C14_FiltersDebounced ==
    \A c \in FilterCallbacks :
        \A j \in 1..Len(calls[c]) :
            LET k == calls[c][j].change
            IN  k > 0 =>
                  /\ now >= changes[c][k].at + DebounceDelay
                  /\ ~Superseded(c, k)

\* Every delivery of the two sliders is made by the change itself, at the
\* time of the change.
SlidersDeliverAtOnce ==
    \A c \in {"onMaxHopsChange", "onMinDensityChange"} :
        /\ Len(calls[c]) = Len(changes[c])
        /\ \A j \in 1..Len(calls[c]) : calls[c][j].change = j


(***************************************************************************)
(* The year range between the Sidebar and its parent.  The parent is not   *)
(* part of the sources: it is taken to keep the range it was last given    *)
(* and to pass it back as the yearRange prop.                              *)
(***************************************************************************)

\* onChange of the max year slider with a value below the minimum: nothing.
MaxYearSliderRejects(newMax) ==
    /\ ChangesHandled + rejected < MaxChanges
    /\ ~(newMax >= localYearRange[1])
    /\ rejected' = rejected + 1
    /\ UNCHANGED <<sidebarMounted, callsAtUnmount, yearRange, yearRangeSynced,
                   localKeywords>>
    /\ UNCHANGED debounceVars
    /\ UNCHANGED exceptSidebarDebounce

\* onChange of the min year slider with a value above the maximum: nothing.
MinYearSliderRejects(newMin) ==
    /\ ChangesHandled + rejected < MaxChanges
    /\ ~(newMin <= localYearRange[2])
    /\ rejected' = rejected + 1
    /\ UNCHANGED <<sidebarMounted, callsAtUnmount, yearRange, yearRangeSynced,
                   localKeywords>>
    /\ UNCHANGED debounceVars
    /\ UNCHANGED exceptSidebarDebounce

\* The year range timeout runs: onYearRangeChange(newRange), and the parent
\* renders the Sidebar with that range.
YearRangeTimerFire(id) ==
    /\ id \in DOMAIN timers
    /\ timers[id].callback = "onYearRangeChange"
    /\ timers[id].due <= now
    /\ timers' = [i \in DOMAIN timers \ {id} |-> timers[i]]
    /\ calls' = [calls EXCEPT !.onYearRangeChange =
                    Append(@, [value |-> timers[id].value, change |-> timers[id].change])]
    /\ yearRange' = timers[id].value
    /\ yearRangeSynced' = FALSE
    /\ UNCHANGED <<localYearRange, localLimit, mobileLocalLimit, debounceTimerRef,
                   limitDebounceTimerRef, mobileDebounceTimerRef, nextTimerId, now,
                   changes>>
    /\ UNCHANGED <<sidebarMounted, callsAtUnmount, rejected, localKeywords>>
    /\ UNCHANGED exceptSidebarDebounce

\* useEffect(() => { setLocalYearRange(yearRange); }, [yearRange])
YearRangePropSync ==
    /\ ~yearRangeSynced
    /\ localYearRange' = yearRange
    /\ yearRangeSynced' = TRUE
    /\ UNCHANGED <<localLimit, mobileLocalLimit, debounceTimerRef,
                   limitDebounceTimerRef, mobileDebounceTimerRef, timers,
                   nextTimerId, now, changes, calls>>
    /\ UNCHANGED <<sidebarMounted, callsAtUnmount, yearRange, rejected, localKeywords>>
    /\ UNCHANGED exceptSidebarDebounce

(***************************************************************************)
(* Specification SpecYearRange: the two year sliders moved to any values   *)
(* at any times, from any range with min <= max.                           *)
(***************************************************************************)
InitYearRange ==
    /\ \E lo \in Years, hi \in Years :
          /\ lo <= hi
          /\ DebounceMounted(<<lo, hi>>, 100, 500)
          /\ yearRange = <<lo, hi>>
    /\ sidebarMounted = TRUE
    /\ callsAtUnmount = [onYearRangeChange |-> 0, onLimitChange |-> 0]
    /\ yearRangeSynced = TRUE
    /\ rejected = 0
    /\ localKeywords = <<>>
    /\ relationships = <<>>
    /\ AggIdle
    /\ NoDocument
    /\ NoChat
    /\ NoEarth
    /\ NoForceLayout
    /\ AppConstructed
    /\ NoAnimation
    /\ AskIdle
    /\ NothingSelected

NextYearRange ==
    \/ \E newMax \in Years : MaxYearSliderChange(newMax)
    \/ \E newMax \in Years : MaxYearSliderRejects(newMax)
    \/ \E newMin \in Years : MinYearSliderChange(newMin)
    \/ \E newMin \in Years : MinYearSliderRejects(newMin)
    \/ \E id \in DOMAIN timers : YearRangeTimerFire(id)
    \/ YearRangePropSync
    \/ Tick

SpecYearRange == InitYearRange /\ [][NextYearRange]_vars

\* C15: year-range consistency.  From a range with min <= max, after any
\* slider changes, timer firings and prop re-synchronisations the local year
\* range has min <= max, and so has every range passed to onYearRangeChange
\* or waiting in a timeout or held by the parent; a slider change that would
\* cross the other bound is refused, so that no change recorded crosses.
C15_YearRangeConsistent ==
    /\ localYearRange[1] <= localYearRange[2]
    /\ yearRange[1] <= yearRange[2]
    /\ \A j \in 1..Len(calls.onYearRangeChange) :
          calls.onYearRangeChange[j].value[1] <= calls.onYearRangeChange[j].value[2]
    /\ \A id \in DOMAIN timers : timers[id].value[1] <= timers[id].value[2]
    /\ \A k \in 1..Len(changes.onYearRangeChange) :
          changes.onYearRangeChange[k].value[1] <= changes.onYearRangeChange[k].value[2]

\* A range was delivered and synchronised back, the two ends were brought
\* together, and a slider change across the other end was refused.
C15_Witness ==
    /\ rejected > 0
    /\ Len(calls.onYearRangeChange) > 0
    /\ yearRangeSynced
    /\ localYearRange = calls.onYearRangeChange[Len(calls.onYearRangeChange)].value
    /\ localYearRange[1] = localYearRange[2]
    /\ Len(changes.onYearRangeChange) >= 2


(***************************************************************************)
(* App: the init effect fetches the tag clusters and the stats, and the    *)
(* load effect, once App is initialized, fetches the relationships.        *)
(***************************************************************************)

\* What fetchTagClusters and fetchStats can resolve to: the cluster ids
\* (clusters.map(c => c.id)) and the categories
\* (statsData.categories.map(c => c.category)).
ClusterIdLists == {<<>>, <<1>>, <<1, 2>>}

CategoryLists == {<<>>, <<"email">>}

\* Elements of response.relationships.
LoadPayloads ==
    [actor : {NameA}, target : {NameB, NameC}, timestamp : {Null}, location : {Null}]

\* The finally block of load.
\* Mutation of loadFinally: loading stays as load set it.
loadFinallyKeeps(isLoading) == isLoading

loadFinally(isLoading) == FALSE

\* The init effect up to its await: setError(null), and the two fetches.
InitEffect ==
    /\ appPc = "mount"
    /\ appPc' = "awaitInit"
    /\ appError' = FALSE
    /\ clustersFetch' = PendingPromise
    /\ statsFetch' = PendingPromise
    /\ UNCHANGED <<enabledClusterIds, enabledCategories, isInitialized, loading,
                   loadRequest, loadFetch, listBeforeLoad>>
    /\ UNCHANGED <<aggVars, exceptApp>>

\* fetchTagClusters() settles.
ClustersSettle(outcome) ==
    /\ clustersFetch.state = "pending"
    /\ clustersFetch' = outcome
    /\ UNCHANGED <<appPc, statsFetch, enabledClusterIds, enabledCategories,
                   isInitialized, loading, appError, loadRequest, loadFetch,
                   listBeforeLoad>>
    /\ UNCHANGED <<aggVars, exceptApp>>

\* fetchStats() settles.
StatsSettle(outcome) ==
    /\ statsFetch.state = "pending"
    /\ statsFetch' = outcome
    /\ UNCHANGED <<appPc, clustersFetch, enabledClusterIds, enabledCategories,
                   isInitialized, loading, appError, loadRequest, loadFetch,
                   listBeforeLoad>>
    /\ UNCHANGED <<aggVars, exceptApp>>

\* init after its await, Promise.all having resolved.
InitResolves ==
    /\ appPc = "awaitInit"
    /\ clustersFetch.state = "fulfilled"
    /\ statsFetch.state = "fulfilled"
    /\ enabledClusterIds' = clustersFetch.value[1]
    /\ enabledCategories' = statsFetch.value[1]
    /\ isInitialized' = TRUE
    /\ appPc' = "initialized"
    /\ UNCHANGED <<clustersFetch, statsFetch, loading, appError, loadRequest,
                   loadFetch, listBeforeLoad>>
    /\ UNCHANGED <<aggVars, exceptApp>>

\* The catch of init, Promise.all having rejected.
InitCatch ==
    /\ appPc = "awaitInit"
    /\ clustersFetch.state = "rejected" \/ statsFetch.state = "rejected"
    /\ appError' = TRUE
    /\ loading' = FALSE
    /\ appPc' = "failed"
    /\ UNCHANGED <<clustersFetch, statsFetch, enabledClusterIds, enabledCategories,
                   isInitialized, loadRequest, loadFetch, listBeforeLoad>>
    /\ UNCHANGED <<aggVars, exceptApp>>

\* Mutation of LoadEffect: the effect without its isInitialized guard.
LoadEffectUnguarded ==
    /\ loadFetch.state = "none"
    /\ appPc # "mount"
    /\ loading' = TRUE
    /\ loadRequest' = Present([limit |-> 15000, clusterIds |-> enabledClusterIds,
                               categories |-> enabledCategories,
                               yearRange |-> <<1980, 2025>>, includeUndated |-> TRUE,
                               keywords |-> <<>>, maxHops |-> 4])
    /\ loadFetch' = PendingPromise
    /\ listBeforeLoad' = relationships
    /\ UNCHANGED <<appPc, clustersFetch, statsFetch, enabledClusterIds,
                   enabledCategories, isInitialized, appError>>
    /\ UNCHANGED <<aggVars, exceptApp>>

\* The load effect, run when isInitialized has become true, up to its await.
LoadEffect ==
    /\ isInitialized
    /\ loadFetch.state = "none"
    /\ loading' = TRUE
    /\ loadRequest' = Present([limit |-> 15000, clusterIds |-> enabledClusterIds,
                               categories |-> enabledCategories,
                               yearRange |-> <<1980, 2025>>, includeUndated |-> TRUE,
                               keywords |-> <<>>, maxHops |-> 4])
    /\ loadFetch' = PendingPromise
    /\ listBeforeLoad' = relationships
    /\ UNCHANGED <<appPc, clustersFetch, statsFetch, enabledClusterIds,
                   enabledCategories, isInitialized, appError>>
    /\ UNCHANGED <<aggVars, exceptApp>>

\* fetchRelationships resolves: setRelationships(response.relationships), finally.
LoadResolves(list) ==
    /\ loadFetch.state = "pending"
    /\ loadFetch' = Fulfilled(list)
    /\ relationships' = list
    /\ loading' = loadFinally(loading)
    /\ UNCHANGED <<appPc, clustersFetch, statsFetch, enabledClusterIds,
                   enabledCategories, isInitialized, appError, loadRequest,
                   listBeforeLoad>>
    /\ UNCHANGED <<aggOp, derived, exceptApp>>

\* fetchRelationships rejects: the catch logs the error, finally.
LoadRejects ==
    /\ loadFetch.state = "pending"
    /\ loadFetch' = Rejected
    /\ loading' = loadFinally(loading)
    /\ UNCHANGED <<appPc, clustersFetch, statsFetch, enabledClusterIds,
                   enabledCategories, isInitialized, appError, loadRequest,
                   listBeforeLoad>>
    /\ UNCHANGED <<aggVars, exceptApp>>

(***************************************************************************)
(* Specification SpecApp: App from its construction, the three fetches     *)
(* settling in any order and in any way.                                   *)
(***************************************************************************)
InitApp ==
    /\ relationships = <<>>
    /\ AggIdle
    /\ NoDocument
    /\ NoChat
    /\ NoEarth
    /\ NoForceLayout
    /\ AppConstructed
    /\ SidebarProps
    /\ NoAnimation
    /\ DebounceIdle
    /\ AskIdle
    /\ NothingSelected

NextApp ==
    \/ InitEffect
    \/ \E ids \in ClusterIdLists : ClustersSettle(Fulfilled(ids))
    \/ ClustersSettle(Rejected)
    \/ \E categories \in CategoryLists : StatsSettle(Fulfilled(categories))
    \/ StatsSettle(Rejected)
    \/ InitResolves
    \/ InitCatch
    \/ LoadEffect
    \/ \E n \in 0..MaxRels : \E f \in [1..n -> LoadPayloads] :
          LoadResolves([i \in 1..n |-> Rel(i, f[i])])
    \/ LoadRejects

SpecApp == InitApp /\ [][NextApp]_vars

SpecAppFair == InitApp /\ [][NextApp]_vars /\ WF_vars(NextApp)

\* fetchRelationships has been invoked.
LoadInvoked == loadRequest # Absent

\* One of the two initial fetches has failed.
InitialFetchFailed == clustersFetch.state = "rejected" \/ statsFetch.state = "rejected"

\* What holds in every state of the start-up.
StartupOrder ==
    /\ LoadInvoked =>
          /\ clustersFetch.state = "fulfilled"
          /\ statsFetch.state = "fulfilled"
          /\ loadRequest[1].clusterIds = clustersFetch.value[1]
          /\ loadRequest[1].categories = statsFetch.value[1]
    /\ InitialFetchFailed => ~LoadInvoked
    /\ appPc = "failed" => appError /\ ~loading

\* C24: fetchRelationships is not invoked before fetchTagClusters and
\* fetchStats have both succeeded, and then with every cluster id and every
\* category they returned; when one of the two fails fetchRelationships is
\* never invoked, and the error is set and loading ends; and in every run
\* loading becomes false and stays false once the requests have settled.
C24_StartupOrder ==
    /\ []StartupOrder
    /\ InitialFetchFailed ~> (appError /\ ~loading)
    /\ <>[](~loading)

\* Both initial fetches succeeded, fetchRelationships was invoked with the
\* two cluster ids and the category and has succeeded, and loading is over.
C24_Witness ==
    /\ loadFetch.state = "fulfilled"
    /\ clustersFetch = Fulfilled(<<1, 2>>)
    /\ loadRequest[1].clusterIds = <<1, 2>>
    /\ loadRequest[1].categories = <<"email">>
    /\ ~loading
    /\ ~appError

(***************************************************************************)
(* Specification SpecEmptyName: the three aggregations on records whose    *)
(* actor or target may be the empty string.                                *)
(***************************************************************************)
EmptyNamePayloads ==
    [actor : {<<>>, NameA}, target : {<<>>, NameB}, timestamp : {Null},
     location : {Null, <<"P","a","r","i","s">>}]

InitEmptyName ==
    /\ RelationshipsFrom(EmptyNamePayloads)
    /\ AggIdle
    /\ NoDocument
    /\ NoChat
    /\ NoEarth
    /\ NoForceLayout
    /\ AppConstructed
    /\ SidebarProps
    /\ NoAnimation
    /\ DebounceIdle
    /\ AskIdle
    /\ NothingSelected

NextEmptyName ==
    \/ ComputeGraphData
    \/ ComputeLocationData
    \/ ComputeBubbleMapData

SpecEmptyName == InitEmptyName /\ [][NextEmptyName]_vars

\* The record names both an actor and a target.
BothNamed(rel) == rel.actor # <<>> /\ rel.target # <<>>

\* How often the records naming both ends mention the entity.
NamedMentions(rels, name) ==
    Cardinality({i \in 1..Len(rels) : BothNamed(rels[i]) /\ rels[i].actor = name})
        + Cardinality({i \in 1..Len(rels) : BothNamed(rels[i]) /\ rels[i].target = name})

\* C17: a record whose actor or target is the empty string is dropped by
\* aggregation: no node, link or person of the flat graph, the bubble map or a
\* location bucket has the empty name, and the connection counts are those of
\* the records that name both ends.
C17_EmptyNamesDropped ==
    /\ aggOp \in {"graphData", "bubbleMapData"} =>
          /\ \A i \in 1..Len(derived.links) :
                derived.links[i].source # <<>> /\ derived.links[i].target # <<>>
    /\ aggOp = "graphData" =>
          \A i \in 1..Len(derived.nodes) :
              /\ derived.nodes[i].id # <<>>
              /\ derived.nodes[i].connections = NamedMentions(relationships, derived.nodes[i].id)
    /\ aggOp = "bubbleMapData" =>
          \A i \in 1..Len(derived.nodes) : derived.nodes[i].name # <<>>
    /\ aggOp = "locationData" =>
          \A b \in 1..Len(AllBuckets(derived)) : <<>> \notin AllBuckets(derived)[b].people

\* The same with no empty name among the records: the aggregations name
\* exactly the entities of the records.
NamedRecordsKept ==
    (\A i \in 1..Len(relationships) : BothNamed(relationships[i])) => C17_EmptyNamesDropped


(***************************************************************************)
(* The 3D graph: computeNodePositions on the nodes adaptToSpatialGraph     *)
(* returns.  Lengths are kept as multiples of 1/RandomSteps; the angle of  *)
(* a node on its ring and its height are not modelled, so that a position  *)
(* is the origin or a horizontal distance from it.                         *)
(***************************************************************************)

\* Math.random() returns one of 0, 1/RandomSteps, ..., (RandomSteps-1)/RandomSteps.
RandomSteps == 2

Draws == 0..(RandomSteps - 1)

\* The hop bucket of the nodes the centre does not reach.
UnreachableHop == 10

EPSTEIN == <<"J","e","f","f","r","e","y"," ","E","p","s","t","e","i","n">>

\* The SpatialNode[] of adaptToSpatialGraph: hopDistances.get(node.id) ?? Infinity,
\* Infinity being the absent value.
spatialNodes(rels, centerNode) ==
    LET nodes == NodesOf(rels)
        hopDistances == calculateHopDistances(nodes, LinksOf(rels), centerNode)
    IN  [i \in 1..Len(nodes) |->
            [id |-> nodes[i].id,
             hopDistance |-> IF nodes[i].id \in DOMAIN hopDistances
                             THEN Present(hopDistances[nodes[i].id])
                             ELSE Absent]]

\* node.hopDistance === Infinity ? 10 : node.hopDistance
hopOf(node) ==
    IF node.hopDistance = Absent THEN UnreachableHop ELSE node.hopDistance[1]

\* Mutation of ringRadius: the radius does not grow with the hop distance.
ringRadiusFlat(hop, draw) == 20 * draw

\* hop * 80 + Math.random() * 20
ringRadius(hop, draw) == RandomSteps * hop * 80 + 20 * draw

\* (Math.random() - 0.5) * 30
ringVariance(draw) == 30 * draw - 15 * RandomSteps

Origin == [origin |-> TRUE, radial |-> 0]

\* The nodes the rings are drawn for: not in the group of hop 0, and not
\* positioned already.
RingedNodes(nodes) ==
    {i \in 1..Len(nodes) : hopOf(nodes[i]) # 0 /\ nodes[i].id # EPSTEIN}

\* computeNodePositions(nodes, links), radiusDraw[hop] and varianceDraw[i]
\* being what Math.random() returns for the ring of a hop and for node i.
computeNodePositions(nodes, radiusDraw, varianceDraw) ==
    LET hasEpstein == \E i \in 1..Len(nodes) : nodes[i].id = EPSTEIN
        ringed == RingedNodes(nodes)
        ids == {nodes[i].id : i \in ringed} \cup (IF hasEpstein THEN {EPSTEIN} ELSE {})
        indexOf(id) == CHOOSE i \in ringed : nodes[i].id = id
    IN  [id \in ids |->
            IF id = EPSTEIN THEN Origin
            ELSE [origin |-> FALSE,
                  radial |-> ringRadius(hopOf(nodes[indexOf(id)]),
                                        radiusDraw[hopOf(nodes[indexOf(id)])])
                             + ringVariance(varianceDraw[indexOf(id)])]]

\* Records between the centre and two entities, and of an entity with itself.
RingPayloads ==
    {p \in [actor : {EPSTEIN, NameA, NameC}, target : {NameA, NameB, NameC},
            timestamp : {Null}, location : {Null}] :
        <<p.actor, p.target>> \in {<<EPSTEIN, NameA>>, <<EPSTEIN, NameB>>,
                                   <<NameA, NameB>>, <<NameC, NameC>>}}

RingCentres == {EPSTEIN, NameA}

\* The 3D graph renders the records with the given centre node.
ComputeNodePositions(centerNode) ==
    /\ aggOp = "none"
    /\ aggOp' = "nodePositions"
    /\ LET nodes == spatialNodes(relationships, centerNode)
           hops == {hopOf(nodes[i]) : i \in RingedNodes(nodes)}
       IN  \E radiusDraw \in [hops -> Draws], varianceDraw \in [RingedNodes(nodes) -> Draws] :
              derived' = [centerNode |-> centerNode, nodes |-> nodes,
                          positions |-> computeNodePositions(nodes, radiusDraw,
                                                             varianceDraw)]
    /\ UNCHANGED <<relationships, exceptAgg>>

(***************************************************************************)
(* Specification SpecRing: the 3D graph centred on the default centre      *)
(* node, 'Jeffrey Epstein'.                                                *)
(***************************************************************************)
InitRing ==
    /\ RelationshipsFrom(RingPayloads)
    /\ AggIdle
    /\ NoDocument
    /\ NoChat
    /\ NoEarth
    /\ NoForceLayout
    /\ AppConstructed
    /\ SidebarProps
    /\ NoAnimation
    /\ DebounceIdle
    /\ AskIdle
    /\ NothingSelected

NextRing == ComputeNodePositions(EPSTEIN)

SpecRing == InitRing /\ [][NextRing]_vars

\* The band of horizontal distances of hop h, in units of 1/RandomSteps.
BandLow(h) == RandomSteps * (80 * h - 15)

BandHigh(h) == RandomSteps * (80 * h + 35)

NextRingCentre == \E centerNode \in RingCentres : ComputeNodePositions(centerNode)

SpecRingCentre == InitRing /\ [][NextRingCentre]_vars

\* C20: computeNodePositions gives every node a position, for any centre node:
\* the principal, the node at hop distance 0, is at the origin, and a node the
\* principal does not reach is on the ring of hop 10.
C20_EveryNodePositioned ==
    aggOp = "nodePositions" =>
        \A i \in 1..Len(derived.nodes) :
            /\ derived.nodes[i].id \in DOMAIN derived.positions
            /\ derived.nodes[i].hopDistance = Present(0) =>
                  derived.positions[derived.nodes[i].id] = Origin
            /\ derived.nodes[i].hopDistance = Absent =>
                  /\ ~derived.positions[derived.nodes[i].id].origin
                  /\ derived.positions[derived.nodes[i].id].radial >= BandLow(UnreachableHop)
                  /\ derived.positions[derived.nodes[i].id].radial < BandHigh(UnreachableHop)

\* The same for the default centre only.
EveryNodePositionedAroundEpstein ==
    (aggOp = "nodePositions" /\ derived.centerNode = EPSTEIN) => C20_EveryNodePositioned


(***************************************************************************)
(* NetworkView: the D3 force layout and its drag handlers.  Coordinates    *)
(* are points of a small grid in the viewport.                             *)
(***************************************************************************)
\* containerRef.current.clientWidth and clientHeight
Viewport == [width |-> 4, height |-> 2]

GridXs == {0, 2, 4}

GridYs == {0, 1, 2}

\* The nodes of graphData.
ForceNodeIds == {EPSTEIN, NameA}

\* The D3 effect up to the simulation: the nodes are copied, Epstein is fixed
\* to the centre, and forceSimulation gives every node a position, the
\* fixed one if it has one.
ForceLayoutEffect ==
    /\ forceNodes = <<>>
    /\ \E x \in GridXs, y \in GridYs :
          forceNodes' = [id \in ForceNodeIds |->
              IF id = EPSTEIN
              THEN [x |-> Viewport.width \div 2, y |-> Viewport.height \div 2,
                    fx |-> Present(Viewport.width \div 2),
                    fy |-> Present(Viewport.height \div 2)]
              ELSE [x |-> x, y |-> y, fx |-> Absent, fy |-> Absent]]
    /\ UNCHANGED dragSubject
    /\ UNCHANGED exceptForce

\* drag 'start' on node d: d.fx = d.x; d.fy = d.y
DragStart(d) ==
    /\ forceNodes # <<>>
    /\ dragSubject = Null
    /\ dragSubject' = d
    /\ forceNodes' = [forceNodes EXCEPT ![d].fx = Present(forceNodes[d].x),
                                        ![d].fy = Present(forceNodes[d].y)]
    /\ UNCHANGED exceptForce

\* 'drag' with the pointer at (ex, ey): d.fx = e.x; d.fy = e.y
Drag(ex, ey) ==
    /\ dragSubject # Null
    /\ forceNodes' = [forceNodes EXCEPT ![dragSubject].fx = Present(ex),
                                        ![dragSubject].fy = Present(ey)]
    /\ UNCHANGED dragSubject
    /\ UNCHANGED exceptForce

\* drag 'end': if (d.id !== 'Jeffrey Epstein') { d.fx = null; d.fy = null; }
DragEnd ==
    /\ dragSubject # Null
    /\ dragSubject' = Null
    /\ forceNodes' = IF dragSubject # EPSTEIN
                     THEN [forceNodes EXCEPT ![dragSubject].fx = Absent,
                                             ![dragSubject].fy = Absent]
                     ELSE forceNodes
    /\ UNCHANGED exceptForce

\* A tick of the simulation: a node with a fixed position is put there, the
\* others go where the forces take them.
SimulationTick ==
    /\ forceNodes # <<>>
    /\ \E x \in GridXs, y \in GridYs :
          forceNodes' = [id \in ForceNodeIds |->
              [forceNodes[id] EXCEPT
                  !.x = IF forceNodes[id].fx # Absent THEN forceNodes[id].fx[1] ELSE x,
                  !.y = IF forceNodes[id].fy # Absent THEN forceNodes[id].fy[1] ELSE y]]
    /\ UNCHANGED dragSubject
    /\ UNCHANGED exceptForce

(***************************************************************************)
(* Specification SpecDrag: any nodes dragged anywhere while the            *)
(* simulation runs.                                                        *)
(***************************************************************************)
InitDrag ==
    /\ relationships = <<>>
    /\ AggIdle
    /\ NoDocument
    /\ NoChat
    /\ NoEarth
    /\ NoForceLayout
    /\ AppConstructed
    /\ SidebarProps
    /\ NoAnimation
    /\ DebounceIdle
    /\ AskIdle
    /\ NothingSelected

NextDrag ==
    \/ ForceLayoutEffect
    \/ \E d \in ForceNodeIds : DragStart(d)
    \/ \E ex \in GridXs, ey \in GridYs : Drag(ex, ey)
    \/ DragEnd
    \/ SimulationTick

SpecDrag == InitDrag /\ [][NextDrag]_vars

\* The pinning of the nodes other than the principal: fixed exactly while
\* dragged.
OthersPinnedWhileDragged ==
    forceNodes # <<>> =>
        \A id \in ForceNodeIds \ {EPSTEIN} :
            /\ (forceNodes[id].fx # Absent) <=> (dragSubject = id)
            /\ (forceNodes[id].fy # Absent) <=> (dragSubject = id)

\* C19: pinning in the 2D force layout.  Under any drag-start, drag and
\* drag-end events on any nodes, the principal included, the principal
\* 'Jeffrey Epstein' stays fixed at the viewport centre (fx = width/2,
\* fy = height/2), and another node is fixed exactly from its drag start to
\* its drag end.
C19_PrincipalPinnedAtCentre ==
    forceNodes # <<>> =>
        /\ forceNodes[EPSTEIN].fx = Present(Viewport.width \div 2)
        /\ forceNodes[EPSTEIN].fy = Present(Viewport.height \div 2)
        /\ OthersPinnedWhileDragged

(***************************************************************************)
(* ui/GlobeGL.tsx: RotatingEarth, the wireframe globe.  Selecting a        *)
(* location animates the globe's rotation and scale towards it, a chain of *)
(* frame callbacks as in the bubble map.  Dragging and the wheel, which    *)
(* write rotation and scale without animating, are left out.               *)
(***************************************************************************)

\* containerDimensionsRef.current.radius for the default 800 x 600 canvas.
EarthRadius == 240

\* const duration = 1200, in display frames.
EarthDuration == 2

\* The locations prop: markers with their [lat, lng].
EarthLocations ==
    {[name |-> <<"P","a","r","i","s">>, coords |-> <<48, 2>>],
     [name |-> <<"M","i","a","m","i">>, coords |-> <<26, -80>>]}

\* easeInOutCubic(t) of t = elapsed / duration, applied to start and target.
EaseInOut(start, target, elapsed, duration) ==
    LET e == IF elapsed > duration THEN duration ELSE elapsed
        cube(x) == x * x * x
        num == IF 2 * e < duration
               THEN 8 * cube(e)
               ELSE 2 * cube(duration) - cube(2 * duration - 2 * e)
    IN  start + ((target - start) * num) \div (2 * cube(duration))

\* requestAnimationFrame(animate) in RotatingEarth; the id it returns is
\* dropped.
earthRequestFrame(scheduled, animation) ==
    [i \in DOMAIN scheduled \cup {earthNextFrameId} |->
        IF i = earthNextFrameId
        THEN [animation |-> animation, requestedAt |-> earthClock]
        ELSE scheduled[i]]

\* The effect that makes the projection, on mount.
EarthMount ==
    /\ ~earthMounted
    /\ earthAnimations = <<>>
    /\ earthMounted' = TRUE
    /\ scale' = EarthRadius
    /\ UNCHANGED <<earthSelected, earthFrames, earthNextFrameId, earthAnimations,
                   earthClock, rotation, earthWriters>>
    /\ UNCHANGED exceptEarth

\* animateToLocation(lat, lng), the projection existing.
animateToLocation(lat, lng) ==
    /\ earthAnimations' = Append(earthAnimations,
            [startTime |-> earthClock,
             startRotation |-> rotation, targetRotation |-> <<-lng, -lat>>,
             startScale |-> scale, targetScale |-> (EarthRadius * 5) \div 2])
    /\ earthFrames' = earthRequestFrame(earthFrames, Len(earthAnimations) + 1)
    /\ earthNextFrameId' = earthNextFrameId + 1

\* The selectedLocation prop changes to a marker: the animation effect calls
\* animateToLocation, then the projection effect, which depends on the prop
\* too, is run again and makes a new projection at the base scale.
EarthSelect(loc) ==
    /\ earthMounted
    /\ earthSelected # loc.name
    /\ Len(earthAnimations) < MaxAnimations
    /\ earthSelected' = loc.name
    /\ animateToLocation(loc.coords[1], loc.coords[2])
    /\ scale' = EarthRadius
    /\ UNCHANGED <<earthMounted, earthClock, rotation, earthWriters>>
    /\ UNCHANGED exceptEarth

\* The browser runs the scheduled callback <id>: animate() of its animation
\* writes rotation and scale and schedules itself again while t < 1.
earthAnimate(id) ==
    /\ id \in DOMAIN earthFrames
    /\ earthFrames[id].requestedAt < earthClock
    /\ LET animation == earthFrames[id].animation
           a == earthAnimations[animation]
           elapsed == earthClock - a.startTime
           rest == [i \in DOMAIN earthFrames \ {id} |-> earthFrames[i]]
       IN  /\ rotation' = <<EaseInOut(a.startRotation[1], a.targetRotation[1],
                                      elapsed, EarthDuration),
                            EaseInOut(a.startRotation[2], a.targetRotation[2],
                                      elapsed, EarthDuration)>>
           /\ scale' = EaseOut(a.startScale, a.targetScale, elapsed, EarthDuration)
           /\ earthWriters' = IF earthWriters # <<>> /\ earthWriters[Len(earthWriters)] = animation
                              THEN earthWriters
                              ELSE Append(earthWriters, animation)
           /\ IF elapsed < EarthDuration
              THEN /\ earthFrames' = earthRequestFrame(rest, animation)
                   /\ earthNextFrameId' = earthNextFrameId + 1
              ELSE /\ earthFrames' = rest
                   /\ UNCHANGED earthNextFrameId
    /\ UNCHANGED <<earthMounted, earthSelected, earthAnimations, earthClock>>
    /\ UNCHANGED exceptEarth

\* RotatingEarth is unmounted: the cleanup of the projection effect stops the
\* render timer and removes the listeners.
EarthUnmount ==
    /\ earthMounted
    /\ earthMounted' = FALSE
    /\ UNCHANGED <<earthSelected, earthFrames, earthNextFrameId, earthAnimations,
                   earthClock, rotation, scale, earthWriters>>
    /\ UNCHANGED exceptEarth

\* Time passes.
EarthTick ==
    /\ earthClock < MaxAnimTime
    /\ earthClock' = earthClock + 1
    /\ UNCHANGED <<earthMounted, earthSelected, earthFrames, earthNextFrameId,
                   earthAnimations, rotation, scale, earthWriters>>
    /\ UNCHANGED exceptEarth

(***************************************************************************)
(* Specification SpecEarth: the globe mounted, locations selected at any   *)
(* time, and the globe unmounted.                                          *)
(***************************************************************************)
InitEarth ==
    /\ relationships = <<>>
    /\ AggIdle
    /\ NoDocument
    /\ NoChat
    /\ NoEarth
    /\ NoForceLayout
    /\ AppConstructed
    /\ SidebarProps
    /\ NoAnimation
    /\ DebounceIdle
    /\ AskIdle
    /\ NothingSelected

NextEarth ==
    \/ EarthMount
    \/ \E loc \in EarthLocations : EarthSelect(loc)
    \/ \E id \in DOMAIN earthFrames : earthAnimate(id)
    \/ EarthTick
    \/ EarthUnmount

SpecEarth == InitEarth /\ [][NextEarth]_vars

\* The animations with a scheduled continuation.
EarthChains == {earthFrames[id].animation : id \in DOMAIN earthFrames}

\* C26: when a second location is selected while the globe is animating
\* towards the first, the first animation's continuation is cancelled: at
\* most one animation chain is scheduled at any time, no animation writes
\* rotation and scale after a later one has, and none is scheduled once the
\* component is unmounted.
C26_OneEarthAnimation ==
    /\ Cardinality(EarthChains) <= 1
    /\ \A i, j \in 1..Len(earthWriters) : i < j => earthWriters[i] < earthWriters[j]
    /\ ~earthMounted => earthFrames = <<>>

\* What the code keeps: every chain ends when its duration has elapsed.
EarthChainsEnd ==
    \A id \in DOMAIN earthFrames :
        earthFrames[id].requestedAt
            <= earthAnimations[earthFrames[id].animation].startTime + EarthDuration

(***************************************************************************)
(* ai-explanations.ts: useAIChat, and GlobeView's chat form.               *)
(***************************************************************************)

\* Most questions asked in one behaviour.
MaxQuestions == 4

\* What can be typed into the chat input.
ChatInputs == {<<>>, <<" ">>, <<"w","h","o">>, <<"w","h","y">>}

UserMessage(content) == [role |-> "user", content |-> content, answers |-> <<>>]

\* The assistant message askAI resolved to for <asked>; askAI never rejects.
AssistantMessage(asked) ==
    [role |-> "assistant", content |-> <<"a",":">> \o asked, answers |-> asked]

\* useAIChat.ask up to its await.
ask(q) ==
    /\ messages' = Append(messages, UserMessage(q))
    /\ chatLoading' = TRUE
    /\ chatPending' = Append(chatPending, q)

\* GlobeView.handleChatSubmit with <chatInput> typed into the form.
handleChatSubmit(chatInput) ==
    /\ chatAsked < MaxQuestions
    /\ ~(trim(chatInput) = <<>> \/ chatLoading)
    /\ ask(chatInput)
    /\ chatAsked' = chatAsked + 1
    /\ UNCHANGED exceptChat

\* askAI of the oldest pending question resolves: the rest of ask.
AnswerArrives ==
    /\ chatPending # <<>>
    /\ messages' = Append(messages, AssistantMessage(Head(chatPending)))
    /\ chatLoading' = FALSE
    /\ chatPending' = Tail(chatPending)
    /\ UNCHANGED chatAsked
    /\ UNCHANGED exceptChat

\* The 'Clear conversation' button, shown while there are messages.
clearChat ==
    /\ Len(messages) > 0
    /\ messages' = <<>>
    /\ UNCHANGED <<chatLoading, chatPending, chatAsked>>
    /\ UNCHANGED exceptChat

(***************************************************************************)
(* Specification SpecChat: questions submitted, answers arriving and the   *)
(* conversation cleared, in any order.                                     *)
(***************************************************************************)
InitChat ==
    /\ relationships = <<>>
    /\ AggIdle
    /\ NoDocument
    /\ NoChat
    /\ NoEarth
    /\ NoForceLayout
    /\ AppConstructed
    /\ SidebarProps
    /\ NoAnimation
    /\ DebounceIdle
    /\ AskIdle
    /\ NothingSelected

NextChat ==
    \/ \E chatInput \in ChatInputs : handleChatSubmit(chatInput)
    \/ AnswerArrives
    \/ clearChat

SpecChat == InitChat /\ [][NextChat]_vars

\* C28: under any interleaving of submissions, 'clear conversation' and
\* answers, at most one question is in flight, and every assistant message
\* of the transcript comes right after the user message it answers: the
\* transcript never starts with an assistant message nor holds two in a row.
C28_TranscriptWellFormed ==
    /\ Len(chatPending) <= 1
    /\ \A i \in 1..Len(messages) :
          messages[i].role = "assistant" =>
              /\ i > 1
              /\ messages[i - 1].role = "user"
              /\ messages[i - 1].content = messages[i].answers

\* What the code keeps: one question in flight at most, in flight exactly
\* while loading, and never two assistant messages in a row.
OneQuestionInFlight ==
    /\ Len(chatPending) <= 1
    /\ chatLoading <=> chatPending # <<>>
    /\ \A i \in 2..Len(messages) :
          ~(messages[i].role = "assistant" /\ messages[i - 1].role = "assistant")

(***************************************************************************)
(* ui/GlobeGL.tsx: preloadDocument, run by selectEvent for the event       *)
(* clicked.  GlobeView.openDocumentModal has the same body after opening   *)
(* the modal.  What is shown carries, as <of>, the document it was made    *)
(* for.                                                                    *)
(***************************************************************************)

\* Most events selected in one behaviour.
MaxDocCalls == 2

NO_LAWYER_SUMMARY == "I have nothing to say without my lawyer present."

NO_RECALL_SUMMARY == "I don't recall that document."

FIFTH_SUMMARY == "I'm invoking my Fifth Amendment rights."

\* Texts are sequences of characters or, as here, of longer pieces.
FAILED_TEXT == <<"Failed to load document content.">>

\* event.doc_id of the events that can be selected.
DocIds == {DocOne, DocTwo}

\* What fetchDocumentText(doc_id) resolves to, as textResult.text.
TextOf(doc_id) == <<"t", "e", "x", "t", " ">> \o doc_id

Shown(doc_id, content) == [of |-> doc_id, content |-> content]

\* What fetchDocument(doc_id) resolves to.
DocMetaOf(doc_id) == [doc_id |-> doc_id, category |-> "email", summary |-> "s"]

\* docMeta ? {...} : { doc_id: event.doc_id, category: 'Unknown' }
MetaShown(docMeta, doc_id) ==
    IF docMeta # Absent
    THEN [doc_id |-> docMeta[1].doc_id, category |-> docMeta[1].category]
    ELSE [doc_id |-> doc_id, category |-> "Unknown"]

\* How the language model call of preloadDocument can go.
DocLlmOutcomes ==
    {LlmOutcome("rejects", FALSE, "none", JsonNull),
     LlmOutcome("responds", FALSE, "parses", JsonObject(Absent)),
     LlmOutcome("responds", TRUE, "rejects", JsonNull),
     LlmOutcome("responds", TRUE, "parses",
                JsonObject(Present(<<Choice(Present(Message(Present("He was a client."))))>>)))}

\* The language model call throws inside the try block: fetch rejects, or
\* json() rejects, or the body is null.
LlmThrows(outcome) ==
    \/ outcome.fetch = "rejects"
    \/ outcome.json = "rejects"
    \/ outcome.data.isNull

\* setDocumentText('Failed to load document content.') in the catch.
catchText(text, doc_id) == Present(Shown(doc_id, FAILED_TEXT))

\* preloadDocument(event) up to its await.
preloadDocument(doc_id) ==
    /\ Len(docCalls) < MaxDocCalls
    /\ documentText' = Absent
    /\ documentMeta' = Absent
    /\ documentAI' = Absent
    /\ documentLoading' = TRUE
    /\ documentAILoading' = TRUE
    /\ docCalls' = Append(docCalls,
                     [event |-> doc_id, pc |-> "fetching", text |-> PendingPromise,
                      meta |-> PendingPromise, llm |-> Absent])
    /\ UNCHANGED docHasKey
    /\ UNCHANGED exceptDoc

\* fetchDocumentText of call i settles.
DocTextSettles(i, succeeds) ==
    /\ docCalls[i].text = PendingPromise
    /\ docCalls' = [docCalls EXCEPT ![i].text =
                       IF succeeds THEN Fulfilled(TextOf(docCalls[i].event)) ELSE Rejected]
    /\ UNCHANGED <<docHasKey, documentText, documentMeta, documentAI, documentLoading,
                   documentAILoading>>
    /\ UNCHANGED exceptDoc

\* fetchDocument(...).catch(() => null) of call i settles: a failure is null.
DocMetaSettles(i, succeeds) ==
    /\ docCalls[i].meta = PendingPromise
    /\ docCalls' = [docCalls EXCEPT ![i].meta =
                       IF succeeds THEN Fulfilled(Present(DocMetaOf(docCalls[i].event)))
                       ELSE Fulfilled(Absent)]
    /\ UNCHANGED <<docHasKey, documentText, documentMeta, documentAI, documentLoading,
                   documentAILoading>>
    /\ UNCHANGED exceptDoc

\* Call i after await Promise.all: it rejected (the catch and finally), or it
\* resolved, and then up to the return without a key or to the await of fetch.
DocAfterFetches(i) ==
    /\ docCalls[i].pc = "fetching"
    /\ LET call == docCalls[i]
       IN  IF call.text = Rejected
           THEN /\ documentText' = catchText(documentText, call.event)
                /\ documentAI' = Present(Shown(call.event, FIFTH_SUMMARY))
                /\ documentLoading' = FALSE
                /\ documentAILoading' = FALSE
                /\ docCalls' = [docCalls EXCEPT ![i].pc = "done"]
                /\ UNCHANGED documentMeta
           ELSE /\ call.text.state = "fulfilled"
                /\ call.meta.state = "fulfilled"
                /\ documentText' = Present(Shown(call.event, call.text.value[1]))
                /\ documentMeta' = Present(MetaShown(call.meta.value[1], call.event))
                /\ documentLoading' = FALSE
                /\ IF ~docHasKey
                   THEN /\ documentAI' = Present(Shown(call.event, NO_LAWYER_SUMMARY))
                        /\ documentAILoading' = FALSE
                        /\ docCalls' = [docCalls EXCEPT ![i].pc = "done"]
                   ELSE /\ docCalls' = [docCalls EXCEPT ![i].pc = "asking"]
                        /\ UNCHANGED <<documentAI, documentAILoading>>
    /\ UNCHANGED docHasKey
    /\ UNCHANGED exceptDoc

\* The language model call of call i settles, and the call runs to its end.
DocLlmSettles(i, outcome) ==
    /\ docCalls[i].pc = "asking"
    /\ LET call == docCalls[i]
       IN  /\ IF LlmThrows(outcome)
              THEN /\ documentText' = catchText(documentText, call.event)
                   /\ documentAI' = Present(Shown(call.event, FIFTH_SUMMARY))
              ELSE /\ documentAI' = Present(Shown(call.event,
                        IF ContentOf(outcome.data) = Absent \/ ContentOf(outcome.data) = Present("")
                        THEN NO_RECALL_SUMMARY
                        ELSE ContentOf(outcome.data)[1]))
                   /\ UNCHANGED documentText
           /\ docCalls' = [docCalls EXCEPT ![i].pc = "done", ![i].llm = Present(outcome)]
    /\ documentLoading' = FALSE
    /\ documentAILoading' = FALSE
    /\ UNCHANGED <<docHasKey, documentMeta>>
    /\ UNCHANGED exceptDoc

(***************************************************************************)
(* Specification SpecDoc: events selected one after another, with or       *)
(* without the key, their requests settling in any order and way.          *)
(***************************************************************************)
InitDoc ==
    /\ relationships = <<>>
    /\ AggIdle
    /\ \E key \in BOOLEAN :
          /\ docHasKey = key
          /\ documentText = Absent
          /\ documentMeta = Absent
          /\ documentAI = Absent
          /\ documentLoading = FALSE
          /\ documentAILoading = FALSE
          /\ docCalls = <<>>
    /\ NoChat
    /\ NoEarth
    /\ NoForceLayout
    /\ AppConstructed
    /\ SidebarProps
    /\ NoAnimation
    /\ DebounceIdle
    /\ AskIdle
    /\ NothingSelected

NextDoc ==
    \/ \E doc_id \in DocIds : preloadDocument(doc_id)
    \/ \E i \in 1..Len(docCalls), succeeds \in BOOLEAN : DocTextSettles(i, succeeds)
    \/ \E i \in 1..Len(docCalls), succeeds \in BOOLEAN : DocMetaSettles(i, succeeds)
    \/ \E i \in 1..Len(docCalls) : DocAfterFetches(i)
    \/ \E i \in 1..Len(docCalls), outcome \in DocLlmOutcomes : DocLlmSettles(i, outcome)

SpecDoc == InitDoc /\ [][NextDoc]_vars

\* Every request of every call has settled and every call has run to its end.
DocRequestsSettled ==
    /\ docCalls # <<>>
    /\ \A i \in 1..Len(docCalls) :
          /\ docCalls[i].pc = "done"
          /\ docCalls[i].text # PendingPromise
          /\ docCalls[i].meta # PendingPromise

LastSelected == docCalls[Len(docCalls)].event

\* C29: once all document and language-model requests have settled, the
\* document text, the metadata and the summary shown are those of the event
\* selected last, whatever the order the responses arrived in.
C29_LastSelectedShown ==
    DocRequestsSettled =>
        /\ documentText # Absent /\ documentText[1].of = LastSelected
        /\ documentMeta # Absent => documentMeta[1].doc_id = LastSelected
        /\ documentAI # Absent /\ documentAI[1].of = LastSelected

\* What the code keeps: after a single selection, what is shown is that
\* event's.
OnlySelectionShown ==
    (DocRequestsSettled /\ Len(docCalls) = 1) =>
        /\ documentText # Absent /\ documentText[1].of = LastSelected
        /\ documentMeta # Absent => documentMeta[1].doc_id = LastSelected
        /\ documentAI # Absent /\ documentAI[1].of = LastSelected

\* C30: for one selected event, when the operation has completed: if
\* fetchDocumentText succeeded the text shown is the fetched text, also when
\* the language model call failed (then only the summary is a placeholder);
\* if only the metadata fetch failed the category shown is 'Unknown'; and
\* both loading flags are false.
C30_DocumentKeptOnLlmFailure ==
    (Len(docCalls) = 1 /\ docCalls[1].pc = "done") =>
        /\ docCalls[1].text.state = "fulfilled" =>
              documentText = Present(Shown(docCalls[1].event, docCalls[1].text.value[1]))
        /\ (docCalls[1].text.state = "fulfilled" /\ docCalls[1].meta = Fulfilled(Absent)) =>
              /\ documentMeta # Absent
              /\ documentMeta[1].category = "Unknown"
        /\ ~documentLoading
        /\ ~documentAILoading

\* What the code keeps: the fetched text is shown unless the language model
\* call threw, a failed metadata fetch alone gives category 'Unknown', and
\* the loading flags are false at the end.
DocumentKeptUnlessLlmThrows ==
    (Len(docCalls) = 1 /\ docCalls[1].pc = "done") =>
        /\ (docCalls[1].text.state = "fulfilled"
              /\ (docCalls[1].llm = Absent \/ ~LlmThrows(docCalls[1].llm[1]))) =>
              documentText = Present(Shown(docCalls[1].event, docCalls[1].text.value[1]))
        /\ (docCalls[1].text.state = "fulfilled" /\ docCalls[1].meta = Fulfilled(Absent)) =>
              /\ documentMeta # Absent
              /\ documentMeta[1].category = "Unknown"
        /\ ~documentLoading
        /\ ~documentAILoading

====
